---- MODULE Spec2Model ----
(***************************************************************************)
(* Smart Invoice Auditor: the similarity-based DuplicateDetector           *)
(* (src/agent/duplicate_detector.py) and the rule-based audit system       *)
(* (src/audit/rules.py).                                                   *)
(*                                                                         *)
(* Numbers.  Python floats are modelled by exact rationals <<n, d>> with   *)
(* d > 0, kept in lowest terms.  Money amounts of the detector are whole   *)
(* cents.  Strings that are only compared are TLA+ strings; strings whose  *)
(* characters matter (line-item descriptions) are sequences of characters. *)
(* A Python dict is a function whose domain is the set of its keys.        *)
(***************************************************************************)
EXTENDS Integers, Sequences, FiniteSets, TLC

VARIABLES
    invoice_history,   \* DuplicateDetector.invoice_history: id -> invoice data
    history_keys,      \* insertion order of the keys of invoice_history
    invoice_hashes,    \* DuplicateDetector.invoice_hashes: id -> hash
    vendor_invoices,   \* DuplicateDetector.vendor_invoices: vendor -> list of ids
    result,            \* value returned by the last detector call
    call,              \* the last detector call and its arguments
    pc,                \* concurrent callers: position of each caller
    verdict,           \* concurrent callers: each caller's check_duplicate verdict
    submitted,         \* concurrent callers: the invoice both callers submit
    simA, simB,        \* similarity study: the two invoices compared
    simAB, simBA,      \* similarity study: similarity(a, b) and similarity(b, a)
    rule,              \* rule study: the rule instance last checked
    rule_input,        \* rule study: [invoice, context] last checked
    rule_result,       \* rule study: the AuditResult of the last check
    rs,                \* serialization study: the rule set in memory
    serialized,        \* serialization study: the JSON text of a rule set
    restored,          \* serialization study: outcome of deserializing it
    rule_sets,         \* RuleEngine.rule_sets: name -> rule set
    rule_set_names,    \* insertion order of the keys of rule_sets
    engine_call,       \* the last engine call and its arguments
    engine_result,     \* value returned (or error raised) by the last engine call
    invoices,          \* models DuplicateDetector.invoices: list of Invoice objects
    id_index,          \* models DuplicateDetector._id_index: id -> list of invoices
    hash_index,        \* models DuplicateDetector._hash_index: hash -> list of invoices
    coll_call,         \* the last call on the models detector and its arguments
    coll_result        \* value returned by the last call on the models detector

vars == <<invoice_history, history_keys, invoice_hashes, vendor_invoices, result,
          call, pc, verdict, submitted, simA, simB, simAB, simBA,
          rule, rule_input, rule_result, rs, serialized, restored,
          rule_sets, rule_set_names, engine_call, engine_result,
          invoices, id_index, hash_index, coll_call, coll_result>>

detVars == <<invoice_history, history_keys, invoice_hashes, vendor_invoices,
             result, call>>
concVars == <<pc, verdict, submitted>>
simVars == <<simA, simB, simAB, simBA>>
ruleVars == <<rule, rule_input, rule_result>>
serVars == <<rs, serialized, restored>>
engVars == <<rule_sets, rule_set_names, engine_call, engine_result>>
collVars == <<invoices, id_index, hash_index, coll_call, coll_result>>

None == "None"

\* no detector call outstanding
NoCall == [op |-> "none"]

\* no similarity computed yet
NoScore == <<>>

(***************************************************************************)
(* Python helpers                                                          *)
(***************************************************************************)

\* dict.get(key, default)
Get(d, key, default) == IF key \in DOMAIN d THEN d[key] ELSE default

Abs(x) == IF x < 0 THEN -x ELSE x

Max2(x, y) == IF x >= y THEN x ELSE y

RECURSIVE GCD(_, _)
GCD(x, y) == IF y = 0 THEN x ELSE GCD(y, x % y)

\* A rational in lowest terms with a positive denominator.
Rat(n, d) ==
    LET s == IF d < 0 THEN -1 ELSE 1
        g == GCD(Abs(n), Abs(d))
    IN  <<(s * n) \div g, (s * d) \div g>>

RInt(n) == <<n, 1>>
RAdd(x, y) == Rat(x[1] * y[2] + y[1] * x[2], x[2] * y[2])
RSub(x, y) == Rat(x[1] * y[2] - y[1] * x[2], x[2] * y[2])
RMul(x, y) == Rat(x[1] * y[1], x[2] * y[2])
RLess(x, y) == x[1] * y[2] < y[1] * x[2]
RLeq(x, y) == x[1] * y[2] <= y[1] * x[2]
RMax(x, y) == IF RLess(x, y) THEN y ELSE x
RMin(x, y) == IF RLess(y, x) THEN y ELSE x

\* str.lower() on the strings the model uses: upper-case letters are the only
\* characters it changes.
LowerTable ==
    [s \in {"Acme", "ACME", "Globex", "HIGH", "Medium", "Travel", "OFFICE"} |->
        CASE s = "Acme" -> "acme"
          [] s = "ACME" -> "acme"
          [] s = "Globex" -> "globex"
          [] s = "HIGH" -> "high"
          [] s = "Medium" -> "medium"
          [] s = "Travel" -> "travel"
          [] s = "OFFICE" -> "office"]

Lower(s) == IF s \in DOMAIN LowerTable THEN LowerTable[s] ELSE s

LowerChar(c) == IF c = "A" THEN "a" ELSE IF c = "B" THEN "b" ELSE c

\* str.lower() on a string given as a sequence of characters
LowerSeq(s) == [i \in 1..Len(s) |-> LowerChar(s[i])]

\* datetime.strptime(date, "%Y-%m-%d"): the day number of the dates that parse
\* (days since 2022-12-31); any other string raises ValueError.
DayNumber ==
    [d \in {"2023-05-15", "2023-05-20", "2023-06-30"} |->
        CASE d = "2023-05-15" -> 135
          [] d = "2023-05-20" -> 140
          [] d = "2023-06-30" -> 181]

Parses(d) == d \in DOMAIN DayNumber

\* f"{x:.2f}" for an amount of x whole cents: sign, units and two decimals.
Format2f(x) == <<IF x < 0 THEN "-" ELSE "", Abs(x) \div 100, Abs(x) % 100>>

(***************************************************************************)
(* difflib.SequenceMatcher(None, a, b).ratio() for strings below the       *)
(* autojunk length (200): no junk, so the matching blocks are found by     *)
(* the plain recursive longest-match search.  Offsets are 0-based and      *)
(* half-open as in difflib; a[i] of Python is a[i + 1] here.               *)
(***************************************************************************)

\* length of the common run of a[i:ahi] and b[j:bhi] starting at (i, j)
RECURSIVE RunLength(_, _, _, _, _, _)
RunLength(a, i, ahi, b, j, bhi) ==
    IF i < ahi /\ j < bhi /\ a[i + 1] = b[j + 1]
    THEN 1 + RunLength(a, i + 1, ahi, b, j + 1, bhi)
    ELSE 0

\* SequenceMatcher.find_longest_match: the longest block; of those the one that
\* starts earliest in a, and of those the one that starts earliest in b.
find_longest_match(a, alo, ahi, b, blo, bhi) ==
    LET starts == (alo..(ahi - 1)) \X (blo..(bhi - 1))
        size(p) == RunLength(a, p[1], ahi, b, p[2], bhi)
        longest == CHOOSE p \in starts : \A q \in starts :
                      \/ size(p) > size(q)
                      \/ /\ size(p) = size(q)
                         /\ \/ p[1] < q[1]
                            \/ p[1] = q[1] /\ p[2] <= q[2]
    IN  IF starts = {} \/ size(longest) = 0
        THEN [i |-> alo, j |-> blo, k |-> 0]
        ELSE [i |-> longest[1], j |-> longest[2], k |-> size(longest)]

\* SequenceMatcher.get_matching_blocks, summed: the number of matched characters
RECURSIVE MatchedCharacters(_, _, _, _, _, _)
MatchedCharacters(a, alo, ahi, b, blo, bhi) ==
    LET m == find_longest_match(a, alo, ahi, b, blo, bhi)
    IN  IF m.k = 0 THEN 0
        ELSE m.k
             + (IF alo < m.i /\ blo < m.j
                THEN MatchedCharacters(a, alo, m.i, b, blo, m.j) ELSE 0)
             + (IF m.i + m.k < ahi /\ m.j + m.k < bhi
                THEN MatchedCharacters(a, m.i + m.k, ahi, b, m.j + m.k, bhi) ELSE 0)

\* SequenceMatcher.ratio(): 2.0 * matches / (len(a) + len(b)), 1.0 for two empty strings
SequenceMatcherRatio(a, b) ==
    IF Len(a) + Len(b) = 0 THEN RInt(1)
    ELSE Rat(2 * MatchedCharacters(a, 0, Len(a), b, 0, Len(b)), Len(a) + Len(b))

(***************************************************************************)
(* DuplicateDetector.calculate_invoice_similarity                          *)
(***************************************************************************)

\* weights = {"vendor": 0.2, "total": 0.3, "date": 0.2, "line_items": 0.3}
weights == [vendor |-> Rat(2, 10), total |-> Rat(3, 10),
            date |-> Rat(2, 10), line_items |-> Rat(3, 10)]

\* the date window of the date score, in days
DateWindowDays == 30

\* scores["vendor"]
vendor_score(invoice1, invoice2) ==
    LET vendor1 == Lower(Get(invoice1, "vendor", ""))
        vendor2 == Lower(Get(invoice2, "vendor", ""))
    IN  IF vendor1 = vendor2 THEN RInt(1) ELSE RInt(0)

\* variant of total_score without max(0.0, ...)
total_score_NoClamp(invoice1, invoice2) ==
    LET total1 == Get(invoice1, "total", 0)
        total2 == Get(invoice2, "total", 0)
    IN  IF total1 = 0 /\ total2 = 0 THEN RInt(1)
        ELSE IF total1 = 0 \/ total2 = 0 THEN RInt(0)
        ELSE LET diff_pct == Rat(Abs(total1 - total2), Max2(total1, total2))
             IN  IF RLess(diff_pct, Rat(1, 100)) THEN RInt(1)
                 ELSE RSub(RInt(1), diff_pct)

\* scores["total"]
total_score(invoice1, invoice2) ==
    LET total1 == Get(invoice1, "total", 0)
        total2 == Get(invoice2, "total", 0)
    IN  IF total1 = 0 /\ total2 = 0 THEN RInt(1)
        ELSE IF total1 = 0 \/ total2 = 0 THEN RInt(0)
        ELSE LET diff_pct == Rat(Abs(total1 - total2), Max2(total1, total2))
             IN  IF RLess(diff_pct, Rat(1, 100)) THEN RInt(1)
                 ELSE RMax(RInt(0), RSub(RInt(1), diff_pct))

\* scores["date"]
date_score(invoice1, invoice2) ==
    LET date1 == Get(invoice1, "date", "")
        date2 == Get(invoice2, "date", "")
    IN  IF date1 = date2 THEN RInt(1)
        ELSE IF date1 # "" /\ date2 # ""
        THEN IF Parses(date1) /\ Parses(date2)
             THEN LET days_diff == Abs(DayNumber[date1] - DayNumber[date2])
                  IN  IF days_diff = 0 THEN RInt(1)
                      ELSE RMax(RInt(0), RSub(RInt(1), Rat(days_diff, DateWindowDays)))
             ELSE RInt(0)          \* except ValueError
        ELSE RInt(0)

\* desc_sim of one pair of line items
desc_sim(item1, item2) ==
    LET desc1 == LowerSeq(Get(item1, "description", <<>>))
        desc2 == LowerSeq(Get(item2, "description", <<>>))
    IN  IF desc1 # <<>> /\ desc2 # <<>>
        THEN SequenceMatcherRatio(desc1, desc2)
        ELSE RInt(0)

\* price_sim of one pair of line items
price_sim(item1, item2) ==
    LET price1 == Get(item1, "price", 0)
        price2 == Get(item2, "price", 0)
    IN  IF price1 = 0 /\ price2 = 0 THEN RInt(1)
        ELSE IF price1 = 0 \/ price2 = 0 THEN RInt(0)
        ELSE LET price_diff == Rat(Abs(price1 - price2), Max2(price1, price2))
             IN  IF RLess(price_diff, Rat(1, 100)) THEN RInt(1)
                 ELSE RMax(RInt(0), RSub(RInt(1), price_diff))

\* qty_sim of one pair of line items
qty_sim(item1, item2) ==
    IF Get(item1, "quantity", 0) = Get(item2, "quantity", 0) THEN RInt(1) ELSE RInt(0)

\* item_sim = (desc_sim * 0.5) + (price_sim * 0.3) + (qty_sim * 0.2)
item_sim(item1, item2) ==
    RAdd(RAdd(RMul(desc_sim(item1, item2), Rat(5, 10)),
              RMul(price_sim(item1, item2), Rat(3, 10))),
         RMul(qty_sim(item1, item2), Rat(2, 10)))

\* best_match of item1 after the inner loop over the first n items of line_items2
RECURSIVE best_match(_, _, _)
best_match(item1, line_items2, n) ==
    IF n = 0 THEN RInt(0)
    ELSE RMax(best_match(item1, line_items2, n - 1), item_sim(item1, line_items2[n]))

\* sum(item_similarities) over the first n items of line_items1
RECURSIVE sum_item_similarities(_, _, _)
sum_item_similarities(line_items1, line_items2, n) ==
    IF n = 0 THEN RInt(0)
    ELSE RAdd(sum_item_similarities(line_items1, line_items2, n - 1),
              best_match(line_items1[n], line_items2, Len(line_items2)))

\* scores["line_items"]
line_items_score(invoice1, invoice2) ==
    LET line_items1 == Get(invoice1, "line_items", <<>>)
        line_items2 == Get(invoice2, "line_items", <<>>)
        n1 == Len(line_items1)
        n2 == Len(line_items2)
    IN  IF n1 = 0 /\ n2 = 0 THEN RInt(1)
        ELSE IF n1 = 0 \/ n2 = 0 THEN RInt(0)
        ELSE LET count_similarity ==
                     RSub(RInt(1), RMin(RInt(1), Rat(Abs(n1 - n2), Max2(n1, n2))))
                 content_similarity ==
                     RMul(sum_item_similarities(line_items1, line_items2, n1), Rat(1, n1))
             IN  RAdd(RMul(count_similarity, Rat(3, 10)),
                      RMul(content_similarity, Rat(7, 10)))

\* weighted_score = sum(scores[key] * weights[key] for key in weights)
calculate_invoice_similarity(invoice1, invoice2) ==
    RAdd(RAdd(RAdd(RMul(vendor_score(invoice1, invoice2), weights.vendor),
                   RMul(total_score(invoice1, invoice2), weights.total)),
              RMul(date_score(invoice1, invoice2), weights.date)),
         RMul(line_items_score(invoice1, invoice2), weights.line_items))

(***************************************************************************)
(* DuplicateDetector: hashing, exact check, similarity search, clustering. *)
(* The operators take the index (history, keys, hashes, vendor buckets)    *)
(* as arguments so that they can be applied to any detector state.         *)
(***************************************************************************)

\* generate_invoice_hash: md5 of "id-vendor-total-date", modelled by the tuple of
\* the four formatted fields (md5 is taken to be injective on them).
generate_invoice_hash(invoice_data) ==
    << Get(invoice_data, "invoice_id", ""),
       Lower(Get(invoice_data, "vendor", "")),
       Format2f(Get(invoice_data, "total", 0)),
       Get(invoice_data, "date", "") >>

\* the first stored id, in dict order, whose stored hash equals h; None if none
RECURSIVE first_hash_match(_, _, _, _)
first_hash_match(keys, hashes, h, n) ==
    IF n > Len(keys) THEN None
    ELSE IF hashes[keys[n]] = h THEN keys[n]
    ELSE first_hash_match(keys, hashes, h, n + 1)

\* check_exact_duplicate after the id check: the verdict from the hash lookup
hash_verdict(stored_id) ==
    IF stored_id # None
    THEN [is_duplicate |-> TRUE,
          reason |-> <<"Invoice content exactly matches existing invoice", stored_id>>,
          duplicate_type |-> "exact_content_match",
          confidence |-> RInt(1),
          matched_invoice_id |-> stored_id]
    ELSE [is_duplicate |-> FALSE,
          reason |-> <<"No exact duplicates found">>,
          confidence |-> RInt(0)]

\* variant of check_exact_duplicate that compares content hashes only
check_exact_duplicate_HashOnly(hist, keys, hashes, invoice_id, invoice_data) ==
    hash_verdict(first_hash_match(keys, hashes, generate_invoice_hash(invoice_data), 1))

\* check_exact_duplicate(invoice_id, invoice_data)
check_exact_duplicate(hist, keys, hashes, invoice_id, invoice_data) ==
    IF invoice_id \in DOMAIN hist
    THEN [is_duplicate |-> TRUE,
          reason |-> <<"Invoice ID already exists in the system", invoice_id>>,
          duplicate_type |-> "exact_id_match",
          confidence |-> RInt(1),
          matched_invoice_id |-> invoice_id]
    ELSE hash_verdict(first_hash_match(keys, hashes,
                                       generate_invoice_hash(invoice_data), 1))

\* max_results default of find_similar_invoices
DefaultMaxResults == 5

\* variant of insert_sorted for a sort without reverse=True
RECURSIVE insert_sorted_Ascending(_, _)
insert_sorted_Ascending(sorted, x) ==
    IF sorted = <<>> THEN <<x>>
    ELSE IF RLess(x.similarity, Head(sorted).similarity)
         THEN <<x>> \o sorted
         ELSE <<Head(sorted)>> \o insert_sorted_Ascending(Tail(sorted), x)

\* list.sort(key=similarity, reverse=True): stable, descending.  Insert x after
\* every element whose similarity is at least x's.
RECURSIVE insert_sorted(_, _)
insert_sorted(sorted, x) ==
    IF sorted = <<>> THEN <<x>>
    ELSE IF RLess(Head(sorted).similarity, x.similarity)
         THEN <<x>> \o sorted
         ELSE <<Head(sorted)>> \o insert_sorted(Tail(sorted), x)

RECURSIVE sort_by_similarity(_, _)
sort_by_similarity(results, n) ==
    IF n = 0 THEN <<>>
    ELSE insert_sorted(sort_by_similarity(results, n - 1), results[n])

\* the body of the loop of find_similar_invoices for one candidate, given the
\* results so far and the candidate's similarity
similar_step(results, invoice_data, invoice_id, stored_invoice, similarity, threshold) ==
    IF Get(invoice_data, "invoice_id", None) = invoice_id THEN results   \* continue
    ELSE IF RLeq(threshold, similarity)
         THEN Append(results, [invoice_id |-> invoice_id,
                               similarity |-> similarity,
                               invoice_data |-> stored_invoice])
         ELSE results

\* the loop of find_similar_invoices over the first n candidates
RECURSIVE similar_results(_, _, _, _, _)
similar_results(hist, candidate_ids, invoice_data, threshold, n) ==
    IF n = 0 THEN <<>>
    ELSE similar_step(similar_results(hist, candidate_ids, invoice_data, threshold, n - 1),
                      invoice_data, candidate_ids[n], hist[candidate_ids[n]],
                      calculate_invoice_similarity(invoice_data, hist[candidate_ids[n]]),
                      threshold)

\* candidate_ids: the vendor's bucket, or every id when the bucket is empty
candidate_ids_of(bucket, keys) == IF bucket = <<>> THEN keys ELSE bucket

\* results.sort(key=similarity, reverse=True); return results[:max_results]
sorted_and_limited(results, max_results) ==
    SubSeq(sort_by_similarity(results, Len(results)), 1,
           IF Len(results) < max_results THEN Len(results) ELSE max_results)

\* the loop of find_similar_invoices over all the candidates
scan_candidates(hist, candidate_ids, invoice_data, threshold) ==
    similar_results(hist, candidate_ids, invoice_data, threshold, Len(candidate_ids))

\* find_similar_invoices(invoice_data, threshold, max_results)
find_similar_invoices(hist, keys, buckets, invoice_data, threshold, max_results) ==
    sorted_and_limited(
        scan_candidates(hist,
                        candidate_ids_of(Get(buckets,
                                             Lower(Get(invoice_data, "vendor", "UNKNOWN")),
                                             <<>>),
                                         keys),
                        invoice_data, threshold),
        max_results)

\* the second half of check_duplicate: the verdict from the similar invoices found
similar_verdict(similar_invoices) ==
    IF similar_invoices # <<>>
    THEN [is_duplicate |-> TRUE,
          reason |-> <<"Invoice is very similar to existing invoice",
                       similar_invoices[1].invoice_id>>,
          duplicate_type |-> "similar_content",
          confidence |-> similar_invoices[1].similarity,
          matched_invoice_id |-> similar_invoices[1].invoice_id,
          similar_invoices |-> similar_invoices]
    ELSE [is_duplicate |-> FALSE,
          reason |-> <<"No duplicates found">>,
          confidence |-> RInt(0)]

\* check_duplicate, given the outcome of the exact check
combined_verdict(exact_check, hist, keys, buckets, invoice_data, similarity_threshold) ==
    IF exact_check.is_duplicate THEN exact_check
    ELSE similar_verdict(find_similar_invoices(hist, keys, buckets, invoice_data,
                                               similarity_threshold, DefaultMaxResults))

\* check_duplicate(invoice_data, similarity_threshold)
check_duplicate(hist, keys, hashes, buckets, invoice_data, similarity_threshold) ==
    combined_verdict(
        check_exact_duplicate(hist, keys, hashes,
                              Get(invoice_data, "invoice_id", "UNKNOWN"), invoice_data),
        hist, keys, buckets, invoice_data, similarity_threshold)

\* the scan "for k, cluster in enumerate(clusters)" of get_duplicate_clusters from
\* position k on: the (1-based) positions found for the two ids, 0 for None
RECURSIVE find_clusters(_, _, _, _, _, _)
find_clusters(clusters, id_i, id_j, k, cluster_i, cluster_j) ==
    IF k > Len(clusters) THEN <<cluster_i, cluster_j>>
    ELSE LET ci == IF id_i \in clusters[k] THEN k ELSE cluster_i
             cj == IF id_j \in clusters[k] THEN k ELSE cluster_j
         IN  IF ci # 0 /\ cj # 0 THEN <<ci, cj>>          \* break
             ELSE find_clusters(clusters, id_i, id_j, k + 1, ci, cj)

\* variant of the merge that extends cluster_i and keeps cluster_j in the list
merge_clusters_NoPop(clusters, cluster_i, cluster_j) ==
    [clusters EXCEPT ![cluster_i] = @ \cup clusters[cluster_j]]

\* variant of the merge that removes cluster_j without adding its members to cluster_i
merge_clusters_NoUpdate(clusters, cluster_i, cluster_j) ==
    SubSeq(clusters, 1, cluster_j - 1) \o SubSeq(clusters, cluster_j + 1, Len(clusters))

\* clusters[cluster_i].update(clusters[cluster_j]); clusters.pop(cluster_j)
merge_clusters(clusters, cluster_i, cluster_j) ==
    LET updated == [clusters EXCEPT ![cluster_i] = @ \cup clusters[cluster_j]]
    IN  SubSeq(updated, 1, cluster_j - 1) \o SubSeq(updated, cluster_j + 1, Len(updated))

\* "if cluster_i != cluster_j": merge the two clusters found
merge_found(clusters, found) ==
    IF found[1] # found[2] THEN merge_clusters(clusters, found[1], found[2]) ELSE clusters

\* the body of the inner loop for the pair (i, j) of positions in invoice_ids
cluster_step(hist, keys, threshold, clusters, i, j) ==
    IF RLeq(threshold, calculate_invoice_similarity(hist[keys[i]], hist[keys[j]]))
    THEN merge_found(clusters, find_clusters(clusters, keys[i], keys[j], 1, 0, 0))
    ELSE clusters

\* the nested loops "for i in range(n): for j in range(i + 1, n)" from (i, j) on
RECURSIVE cluster_loop(_, _, _, _, _, _)
cluster_loop(hist, keys, threshold, clusters, i, j) ==
    IF i > Len(keys) THEN clusters
    ELSE IF j > Len(keys)
         THEN cluster_loop(hist, keys, threshold, clusters, i + 1, i + 2)
         ELSE cluster_loop(hist, keys, threshold,
                           cluster_step(hist, keys, threshold, clusters, i, j), i, j + 1)

\* clusters = [{invoice_id} for invoice_id in invoice_ids], over the first n ids
RECURSIVE singleton_clusters(_, _)
singleton_clusters(keys, n) ==
    IF n = 0 THEN <<>> ELSE Append(singleton_clusters(keys, n - 1), {keys[n]})

\* get_duplicate_clusters(similarity_threshold); each returned list(cluster) is
\* given as the set of its members (the order of list(set) is not specified)
get_duplicate_clusters(hist, keys, similarity_threshold) ==
    LET big(c) == Cardinality(c) > 1
    IN  IF Len(keys) = 0 THEN <<>>
        ELSE SelectSeq(cluster_loop(hist, keys, similarity_threshold,
                                    singleton_clusters(keys, Len(keys)), 1, 2), big)

(***************************************************************************)
(* Bounded inputs of the detector                                          *)
(***************************************************************************)

\* longest line-item list of an invoice
MaxItems == 2

\* line items: {"description", "price", "quantity"}; prices in cents
ItemPool ==
    { [description |-> <<"a", "b", "a", "b">>, price |-> 4500, quantity |-> 5],
      [description |-> <<"B", "a", "a", "b">>, price |-> 4500, quantity |-> 5],
      [description |-> <<>>, price |-> 0, quantity |-> 1],
      [description |-> <<"a", "b">>, price |-> -4500] }

ItemLists == UNION { [1..n -> ItemPool] : n \in 0..MaxItems }

InvoiceData(id, v, t, d, li) ==
    [invoice_id |-> id, vendor |-> v, total |-> t, date |-> d, line_items |-> li]

SimVendors == {"Acme", "ACME", "Globex"}
SimTotals == {0, 91800, 92000, 183600, -91800, -45900}
SimDates == {"", "2023-05-15", "2023-05-20", "2023-06-30", "15/05/2023"}

\* The invoices the similarity study compares.  The score is a sum of four terms,
\* each a function of one field of the two invoices, so the study varies the header
\* fields over all their combinations with the line items fixed, and the line
\* items over all lists with the header fixed.  The id plays no part in the score.
SimInvoices ==
    { InvoiceData("INV-1", h[1], h[2], h[3], <<>>) :
        h \in SimVendors \X SimTotals \X SimDates }
    \cup { InvoiceData("INV-1", "Acme", 91800, "2023-05-15", li) : li \in ItemLists }
    \cup { <<>>, [invoice_id |-> "INV-1"], [vendor |-> "Acme", total |-> 91800],
           [date |-> "2023-05-15", line_items |-> << [quantity |-> 5] >>] }

(***************************************************************************)
(* Idle values of the parts of the state a specification does not use      *)
(***************************************************************************)

DetIdle ==
    /\ invoice_history = <<>>
    /\ history_keys = <<>>
    /\ invoice_hashes = <<>>
    /\ vendor_invoices = <<>>
    /\ result = None
    /\ call = NoCall

ConcIdle == pc = None /\ verdict = None /\ submitted = None

SimIdle == simA = None /\ simB = None /\ simAB = NoScore /\ simBA = NoScore

RuleIdle == rule = None /\ rule_input = None /\ rule_result = None

SerIdle == rs = None /\ serialized = None /\ restored = None

EngIdle ==
    /\ rule_sets = None /\ rule_set_names = None
    /\ engine_call = NoCall /\ engine_result = NoCall

CollIdle ==
    /\ invoices = None /\ id_index = None /\ hash_index = None
    /\ coll_call = NoCall /\ coll_result = NoCall

(***************************************************************************)
(* The detector as a state machine: a detector constructed empty, then any *)
(* sequence of add_invoice, check_duplicate and get_duplicate_clusters     *)
(* calls.  Callers key the index by the invoice's own id                   *)
(* (duplicate_example.py: detector.add_invoice(invoice["invoice_id"],      *)
(* invoice)).  One call is outstanding at a time; DetReturn is the caller  *)
(* taking the returned value.                                              *)
(***************************************************************************)

\* number of add_invoice calls a run makes
MaxAdds == 4

ItemPaper == [description |-> <<"a", "b", "a", "b">>, price |-> 4500, quantity |-> 5]

\* the invoices submitted to the detector: an original, its exact copy under another
\* id, a re-issue under the same id with another total, invoices whose totals
\* double from one to the next (each similar to the next, the ends dissimilar),
\* and two invoices of another vendor that differ in their date only, one of them
\* equal to an Acme invoice in everything but the vendor
DetInvoices ==
    { InvoiceData("INV-1", "Acme", 91800, "2023-05-15", <<ItemPaper>>),
      InvoiceData("INV-1-DUP", "Acme", 91800, "2023-05-15", <<ItemPaper>>),
      InvoiceData("INV-1", "Acme", 183600, "2023-05-15", <<ItemPaper>>),
      InvoiceData("INV-2", "ACME", 183600, "2023-05-15", <<ItemPaper>>),
      InvoiceData("INV-3", "Acme", 367200, "2023-05-15", <<ItemPaper>>),
      InvoiceData("INV-4", "Globex", 367200, "2023-05-15", <<ItemPaper>>),
      InvoiceData("INV-5", "Globex", 367200, "2023-06-30", <<ItemPaper>>) }

\* max_results passed by callers: the default, and 1 (the best match only)
DetMaxResults == {DefaultMaxResults, 1}

\* similarity thresholds passed by callers: the default 0.8, and 0.95
DetThresholds == {Rat(8, 10), Rat(95, 100)}

\* d[key] = value on a dict
DictSet(d, key, value) ==
    [k \in DOMAIN d \cup {key} |-> IF k = key THEN value ELSE d[k]]

\* the order of a dict's keys after d[key] = value
KeysSet(keys, d, key) == IF key \in DOMAIN d THEN keys ELSE Append(keys, key)

\* number of ids held by the vendor buckets: one per add_invoice call
RECURSIVE BucketTotal(_, _)
BucketTotal(buckets, vendors) ==
    IF vendors = {} THEN 0
    ELSE LET v == CHOOSE x \in vendors : TRUE
         IN  Len(buckets[v]) + BucketTotal(buckets, vendors \ {v})

InitDet ==
    /\ invoice_history = <<>>
    /\ history_keys = <<>>
    /\ invoice_hashes = <<>>
    /\ vendor_invoices = <<>>
    /\ result = None
    /\ call = NoCall
    /\ ConcIdle /\ SimIdle /\ RuleIdle /\ SerIdle /\ EngIdle /\ CollIdle

\* add_invoice(invoice_id, invoice_data) applied to the index
add_invoice_history(hist, invoice_id, invoice_data) ==
    DictSet(hist, invoice_id, invoice_data)

add_invoice_hashes(hashes, invoice_id, invoice_data) ==
    DictSet(hashes, invoice_id, generate_invoice_hash(invoice_data))

add_invoice_buckets(buckets, invoice_id, invoice_data) ==
    LET vendor == Lower(Get(invoice_data, "vendor", "UNKNOWN"))
    IN  DictSet(buckets, vendor, Append(Get(buckets, vendor, <<>>), invoice_id))

AddInvoice(inv) ==
    /\ call = NoCall
    /\ BucketTotal(vendor_invoices, DOMAIN vendor_invoices) < MaxAdds
    /\ invoice_history' = add_invoice_history(invoice_history, inv.invoice_id, inv)
    /\ history_keys' = KeysSet(history_keys, invoice_history, inv.invoice_id)
    /\ invoice_hashes' = add_invoice_hashes(invoice_hashes, inv.invoice_id, inv)
    /\ vendor_invoices' = add_invoice_buckets(vendor_invoices, inv.invoice_id, inv)
    /\ result' = None
    /\ call' = [op |-> "add_invoice", invoice |-> inv]
    /\ UNCHANGED <<concVars, simVars, ruleVars, serVars, engVars, collVars>>

CheckDuplicate(inv, threshold) ==
    /\ call = NoCall
    /\ result' = check_duplicate(invoice_history, history_keys, invoice_hashes,
                                 vendor_invoices, inv, threshold)
    /\ call' = [op |-> "check_duplicate", invoice |-> inv, threshold |-> threshold]
    /\ UNCHANGED <<invoice_history, history_keys, invoice_hashes, vendor_invoices,
                   concVars, simVars, ruleVars, serVars, engVars, collVars>>

FindSimilarInvoices(inv, threshold, max_results) ==
    /\ call = NoCall
    /\ result' = [similar_invoices |->
                    find_similar_invoices(invoice_history, history_keys, vendor_invoices,
                                          inv, threshold, max_results)]
    /\ call' = [op |-> "find_similar_invoices", invoice |-> inv, threshold |-> threshold,
                max_results |-> max_results]
    /\ UNCHANGED <<invoice_history, history_keys, invoice_hashes, vendor_invoices,
                   concVars, simVars, ruleVars, serVars, engVars, collVars>>

GetDuplicateClusters(threshold) ==
    /\ call = NoCall
    /\ result' = get_duplicate_clusters(invoice_history, history_keys, threshold)
    /\ call' = [op |-> "get_duplicate_clusters", threshold |-> threshold]
    /\ UNCHANGED <<invoice_history, history_keys, invoice_hashes, vendor_invoices,
                   concVars, simVars, ruleVars, serVars, engVars, collVars>>

DetReturn ==
    /\ call # NoCall
    /\ call' = NoCall
    /\ result' = None
    /\ UNCHANGED <<invoice_history, history_keys, invoice_hashes, vendor_invoices,
                   concVars, simVars, ruleVars, serVars, engVars, collVars>>

NextDet ==
    \/ \E inv \in DetInvoices : AddInvoice(inv)
    \/ \E inv \in DetInvoices, threshold \in DetThresholds : CheckDuplicate(inv, threshold)
    \/ \E inv \in DetInvoices, threshold \in DetThresholds, max_results \in DetMaxResults :
            FindSimilarInvoices(inv, threshold, max_results)
    \/ \E threshold \in DetThresholds : GetDuplicateClusters(threshold)
    \/ DetReturn

SpecDet == InitDet /\ [][NextDet]_vars

\* C4: with invoice A in the index and B an exact copy of A except for its id (an
\* id the index does not hold), check_duplicate(B) returns is_duplicate = true, a
\* duplicate_type that indicates a content-hash match, and confidence = 1.0.
C4_CopyIsContentHashMatch ==
    ( /\ call.op = "check_duplicate"
      /\ call.invoice.invoice_id \notin DOMAIN invoice_history
      /\ \E id \in DOMAIN invoice_history :
            call.invoice = [invoice_history[id] EXCEPT !.invoice_id = call.invoice.invoice_id] )
    => ( /\ result.is_duplicate
         /\ result.duplicate_type = "exact_content_match"
         /\ result.confidence = RInt(1) )

\* C5: whenever the id of the checked invoice is already in the index,
\* check_duplicate reports is_duplicate = true with confidence exactly 1.0,
\* whatever the other fields and the similarity score of the two invoices are.
C5_ExactIdPrecedence ==
    (call.op = "check_duplicate" /\ call.invoice.invoice_id \in DOMAIN invoice_history)
    => (result.is_duplicate /\ result.confidence = RInt(1))

\* C5 witness: an invoice was checked whose id is in the index with another total,
\* so that the similarity of the two is below 1, and the verdict has confidence 1.
C5_Witness ==
    /\ call.op = "check_duplicate"
    /\ call.invoice.invoice_id \in DOMAIN invoice_history
    /\ invoice_history[call.invoice.invoice_id].total # call.invoice.total
    /\ RLess(calculate_invoice_similarity(call.invoice,
                                          invoice_history[call.invoice.invoice_id]),
             RInt(1))
    /\ result.is_duplicate
    /\ result.confidence = RInt(1)

\* C7: in the result of get_duplicate_clusters no invoice id appears in two
\* different clusters, and every returned cluster has at least 2 members.
C7_ClustersDisjoint ==
    call.op = "get_duplicate_clusters"
    => /\ \A i, j \in 1..Len(result) : i # j => result[i] \cap result[j] = {}
       /\ \A i \in 1..Len(result) : Cardinality(result[i]) >= 2

\* C7 witness: clustering an index of four invoices returned two clusters of two.
C7_Witness ==
    /\ call.op = "get_duplicate_clusters"
    /\ Len(result) = 2
    /\ Cardinality(result[1]) = 2
    /\ Cardinality(result[2]) = 2
    /\ result[1] \cup result[2] = DOMAIN invoice_history

\* the pairs of indexed invoices with similarity at or above the threshold, each
\* pair evaluated once with the earlier-inserted invoice as first argument
C8_SimilarPairs(threshold) ==
    { p \in (1..Len(history_keys)) \X (1..Len(history_keys)) :
        /\ p[1] < p[2]
        /\ RLeq(threshold, calculate_invoice_similarity(invoice_history[history_keys[p[1]]],
                                                        invoice_history[history_keys[p[2]]])) }

\* the positions linked to a set of positions by a chain of similar pairs
RECURSIVE C8_Linked(_, _)
C8_Linked(S, pairs) ==
    IF \E p \in pairs : (p[1] \in S) # (p[2] \in S)
    THEN C8_Linked(S \cup { q \in 1..Len(history_keys) :
                              \E p \in pairs : \/ p[1] \in S /\ p[2] = q
                                               \/ p[2] \in S /\ p[1] = q }, pairs)
    ELSE S

\* the connected components, as sets of ids, that have at least 2 members
C8_Components(pairs) ==
    { c \in { { history_keys[q] : q \in C8_Linked({k}, pairs) } :
                k \in 1..Len(history_keys) } : Cardinality(c) >= 2 }

\* C8: get_duplicate_clusters returns exactly the connected components of size at
\* least 2 of the graph whose edges are the pairs with similarity at or above the
\* threshold, each component once.
C8_ClustersAreComponents ==
    call.op = "get_duplicate_clusters"
    => \A pairs \in {C8_SimilarPairs(call.threshold)} :
          \A components \in {C8_Components(pairs)} :
             /\ { result[i] : i \in 1..Len(result) } = components
             /\ Len(result) = Cardinality(components)

\* C8 witness: a returned cluster holds two invoices that are not similar to each
\* other and are linked only through a third.
C8_Witness ==
    /\ call.op = "get_duplicate_clusters"
    /\ \E i \in 1..Len(result) : \E p \in (1..Len(history_keys)) \X (1..Len(history_keys)) :
          /\ p[1] < p[2]
          /\ history_keys[p[1]] \in result[i]
          /\ history_keys[p[2]] \in result[i]
          /\ RLess(calculate_invoice_similarity(invoice_history[history_keys[p[1]]],
                                                invoice_history[history_keys[p[2]]]),
                   call.threshold)

(***************************************************************************)
(* Similarity study: calculate_invoice_similarity applied to a pair of     *)
(* invoices in both argument orders.                                       *)
(***************************************************************************)

InitSim ==
    /\ DetIdle /\ ConcIdle /\ RuleIdle /\ SerIdle /\ EngIdle /\ CollIdle
    /\ simA \in SimInvoices
    /\ simB \in SimInvoices
    /\ simAB = NoScore
    /\ simBA = NoScore

Compare ==
    /\ simAB = NoScore
    /\ simAB' = calculate_invoice_similarity(simA, simB)
    /\ simBA' = calculate_invoice_similarity(simB, simA)
    /\ UNCHANGED <<simA, simB, detVars, concVars, ruleVars, serVars, engVars, collVars>>

NextSim == Compare

SpecSim == InitSim /\ [][NextSim]_vars

\* C1: calculate_invoice_similarity is symmetric: similarity(a, b) = similarity(b, a)
\* for every pair of invoices.
C1_Symmetric == simAB # NoScore => simAB = simBA

(***************************************************************************)
(* Rule sets and their serialization (audit/rules.py).  A rule object is   *)
(* the record of its class and attributes; a Python dict is a function     *)
(* from keys; a JSON text is the sequence of its members <<key, value>>    *)
(* in the order they were written, the value of "rules" being the sequence *)
(* of the texts of the rules.  Amounts are in cents.                       *)
(***************************************************************************)

Absent == [absent |-> TRUE]
NoText == <<>>

\* RuleRegistry._rules: type name -> rule class
RuleRegistry_rules ==
    [ total_matches_calculation |-> "TotalMatchesCalculationRule",
      line_items_sum |-> "LineItemsSumRule",
      date_validity |-> "DateValidityRule",
      required_fields |-> "RequiredFieldsRule",
      max_amount |-> "MaxAmountRule",
      allowed_categories |-> "AllowedCategoriesRule",
      max_item_price |-> "MaxItemPriceRule" ]

\* the parameters of each rule class's __init__ with their default values
\* (None, for the list and dict parameters, is the empty sequence or function)
InitDefaults(class) ==
    CASE class = "TotalMatchesCalculationRule" ->
            [rule_id |-> "total_matches_calculation",
             description |-> "Invoice total should match subtotal + tax",
             severity |-> "medium", tolerance |-> 1]
      [] class = "LineItemsSumRule" ->
            [rule_id |-> "line_items_sum",
             description |-> "Line items should sum to subtotal",
             severity |-> "medium", tolerance |-> 1]
      [] class = "DateValidityRule" ->
            [rule_id |-> "date_validity",
             description |-> "Invoice date should be valid and within acceptable range",
             severity |-> "medium", max_age_days |-> 365, allow_future_days |-> 0]
      [] class = "RequiredFieldsRule" ->
            [rule_id |-> "required_fields",
             description |-> "Invoice should have all required fields",
             severity |-> "high", required_fields |-> <<>>]
      [] class = "MaxAmountRule" ->
            [rule_id |-> "max_amount",
             description |-> "Invoice total should not exceed maximum amount",
             severity |-> "high", max_amount |-> 500000]
      [] class = "AllowedCategoriesRule" ->
            [rule_id |-> "allowed_categories",
             description |-> "Line items should have allowed categories",
             severity |-> "medium", allowed_categories |-> <<>>]
      [] class = "MaxItemPriceRule" ->
            [rule_id |-> "max_item_price",
             description |-> "Line items should not exceed maximum price for their category",
             severity |-> "medium", max_prices |-> <<>>]

\* "self.required_fields = required_fields or [...]": an empty or missing list
\* becomes the default list; the other attributes are stored as given
StoredAttribute(key, value) ==
    IF key = "required_fields" /\ value = <<>>
    THEN <<"invoice_id", "vendor", "date", "total">>
    ELSE value

\* rule_class(**kwargs): the rule object, or a TypeError for a keyword argument
\* that the class's __init__ does not have
NewRule(class, kwargs) ==
    IF DOMAIN kwargs \subseteq DOMAIN InitDefaults(class)
    THEN [class |-> class,
          attrs |-> [k \in DOMAIN InitDefaults(class) |->
                        StoredAttribute(k, IF k \in DOMAIN kwargs THEN kwargs[k]
                                           ELSE InitDefaults(class)[k])]]
    ELSE [error |-> "TypeError"]

\* RuleRegistry.create_rule(rule_type, **kwargs): None for a type that is not registered
create_rule(rule_type, kwargs) ==
    IF rule_type \in DOMAIN RuleRegistry_rules
    THEN NewRule(RuleRegistry_rules[rule_type], kwargs)
    ELSE Absent

\* AuditRule.to_dict()
AuditRule_to_dict(r) ==
    [rule_id |-> r.attrs.rule_id,
     description |-> r.attrs.description,
     severity |-> r.attrs.severity,
     type |-> r.class]

\* RuleSet(name, description, rules)
RuleSet(name, description, rules) ==
    [name |-> name, description |-> description, rules |-> rules]

RECURSIVE rules_to_dict(_, _)
rules_to_dict(rules, n) ==
    IF n = 0 THEN <<>> ELSE Append(rules_to_dict(rules, n - 1), AuditRule_to_dict(rules[n]))

\* RuleSet.to_dict()
RuleSet_to_dict(rule_set) ==
    [name |-> rule_set.name,
     description |-> rule_set.description,
     rules |-> rules_to_dict(rule_set.rules, Len(rule_set.rules))]

\* the order in which to_dict writes the keys of a rule set and of a rule
KeyOrder == <<"name", "rule_id", "description", "severity", "type", "rules">>

RECURSIVE json_dumps_object(_, _)
RECURSIVE json_dumps_array(_, _)

\* json.dumps of a dict: its members in insertion order
json_dumps_object(d, n) ==
    IF n = 0 THEN <<>>
    ELSE IF KeyOrder[n] \notin DOMAIN d THEN json_dumps_object(d, n - 1)
    ELSE Append(json_dumps_object(d, n - 1),
                <<KeyOrder[n], IF KeyOrder[n] = "rules"
                               THEN json_dumps_array(d.rules, Len(d.rules))
                               ELSE d[KeyOrder[n]]>>)

json_dumps_array(a, n) ==
    IF n = 0 THEN <<>>
    ELSE Append(json_dumps_array(a, n - 1), json_dumps_object(a[n], Len(KeyOrder)))

\* RuleSet.to_json()
to_json(rule_set) == json_dumps_object(RuleSet_to_dict(rule_set), Len(KeyOrder))

RECURSIVE json_loads_object(_, _)
RECURSIVE json_loads_array(_, _)

\* json.loads of an object: a dict in which the last member of a repeated key wins
json_loads_object(members, n) ==
    IF n = 0 THEN <<>>
    ELSE DictSet(json_loads_object(members, n - 1), members[n][1],
                 IF members[n][1] = "rules"
                 THEN json_loads_array(members[n][2], Len(members[n][2]))
                 ELSE members[n][2])

json_loads_array(a, n) ==
    IF n = 0 THEN <<>>
    ELSE Append(json_loads_array(a, n - 1), json_loads_object(a[n], Len(a[n])))

\* rule_data.get("type") or rule_data.get("rule_type"); "" stands for a missing
\* or empty type
rule_type_of(rule_data) ==
    IF Get(rule_data, "type", "") # "" THEN rule_data.type
    ELSE Get(rule_data, "rule_type", "")

\* {k: v for k, v in rule_data.items() if k not in ("type", "rule_type")}
kwargs_of(rule_data) ==
    [k \in DOMAIN rule_data \ {"type", "rule_type"} |-> rule_data[k]]

\* the body of the loop of from_dict for one serialized rule: the rules collected
\* so far with the new rule added, the same rules when the rule is skipped, or
\* the exception the constructor raised
from_dict_step(loop, rule_type, made) ==
    IF rule_type = "" THEN loop                                     \* continue
    ELSE IF "error" \in DOMAIN made THEN [loop EXCEPT !.raised = made.error]
    ELSE IF made = Absent THEN loop                                 \* "if rule:" is false
    ELSE [loop EXCEPT !.rules = Append(@, made)]                    \* add_rule

\* the loop "for rule_data in data.get("rules", [])" over the first n rules; it
\* ends at the first exception
RECURSIVE from_dict_rules(_, _)
from_dict_rules(rule_datas, n) ==
    IF n = 0 THEN [rules |-> <<>>, raised |-> None]
    ELSE IF from_dict_rules(rule_datas, n - 1).raised # None
    THEN from_dict_rules(rule_datas, n - 1)
    ELSE from_dict_step(from_dict_rules(rule_datas, n - 1),
                        rule_type_of(rule_datas[n]),
                        create_rule(rule_type_of(rule_datas[n]), kwargs_of(rule_datas[n])))

\* the rule set built from the name, the description and the outcome of the loop
from_dict_result(name, description, loop) ==
    IF loop.raised # None THEN [error |-> loop.raised]
    ELSE RuleSet(name, description, loop.rules)

\* RuleSet.from_dict(data)
from_dict(data) ==
    from_dict_result(Get(data, "name", "Unnamed Rule Set"),
                     Get(data, "description", ""),
                     from_dict_rules(Get(data, "rules", <<>>), Len(Get(data, "rules", <<>>))))

\* RuleSet.from_json(json_str)
from_json(json_str) == from_dict(json_loads_object(json_str, Len(json_str)))

(***************************************************************************)
(* Serialization study: a rule set built in memory is written with         *)
(* to_json and read back with from_json, and rule-set texts written by     *)
(* hand (as the rule files are) are read with from_json.                   *)
(***************************************************************************)

MaxRules == 2

\* rule objects of every built-in class, with default and with custom parameters
RulePool ==
    { NewRule("TotalMatchesCalculationRule", <<>>),
      NewRule("TotalMatchesCalculationRule", [tolerance |-> 5]),
      NewRule("LineItemsSumRule", [severity |-> "low"]),
      NewRule("DateValidityRule", [max_age_days |-> 30]),
      NewRule("RequiredFieldsRule", [required_fields |-> <<"invoice_id", "total">>]),
      NewRule("MaxAmountRule", [rule_id |-> "cap", max_amount |-> 100000]),
      NewRule("AllowedCategoriesRule", [allowed_categories |-> <<"office">>]),
      NewRule("MaxItemPriceRule", [max_prices |-> [office |-> 10000]]) }

\* the sequences of at most n members of a set
RECURSIVE SeqsUpTo(_, _)
SeqsUpTo(S, n) ==
    IF n = 0 THEN {<<>>}
    ELSE SeqsUpTo(S, n - 1) \cup { Append(q, x) : q \in { t \in SeqsUpTo(S, n - 1) : Len(t) = n - 1 }, x \in S }

RuleSets ==
    { RuleSet(name, "", rules) : name \in {"Basic Rules", ""}, rules \in SeqsUpTo(RulePool, MaxRules) }

\* serialized rules as a rule file may hold them: registered types under "type"
\* and under "rule_type", the class name to_dict writes, an unregistered type, no
\* type, and a parameter of another class
RuleTexts ==
    { << <<"type", "max_amount">>, <<"rule_id", "cap">>, <<"max_amount", 100000>> >>,
      << <<"rule_type", "required_fields">> >>,
      << <<"rule_id", "max_amount">>, <<"severity", "high">>, <<"type", "MaxAmountRule">> >>,
      << <<"type", "no_such_rule">>, <<"rule_id", "x">> >>,
      << <<"rule_id", "untyped">> >>,
      << <<"type", "max_amount">>, <<"tolerance", 1>> >> }

RuleSetTexts ==
    { head \o << <<"rules", rules>> >> :
        head \in { <<>>, << <<"name", "From File">>, <<"description", "">> >> },
        rules \in SeqsUpTo(RuleTexts, MaxRules) }

InitSer ==
    /\ DetIdle /\ ConcIdle /\ SimIdle /\ RuleIdle /\ EngIdle /\ CollIdle
    /\ \/ rs \in RuleSets /\ serialized = NoText
       \/ rs = Absent /\ serialized \in RuleSetTexts
    /\ restored = Absent

\* serialized = rs.to_json()
ToJson ==
    /\ rs # Absent
    /\ serialized = NoText
    /\ serialized' = to_json(rs)
    /\ UNCHANGED <<rs, restored, detVars, concVars, simVars, ruleVars, engVars, collVars>>

\* restored = RuleSet.from_json(serialized)
FromJson ==
    /\ serialized # NoText
    /\ restored = Absent
    /\ restored' = from_json(serialized)
    /\ UNCHANGED <<rs, serialized, detVars, concVars, simVars, ruleVars, engVars, collVars>>

NextSer == ToJson \/ FromJson

SpecSer == InitSer /\ [][NextSer]_vars

\* C2: serializing a rule set and deserializing it again gives back an equal rule
\* set: from_json(rs.to_json()) has the same name and description and the same
\* rules in the same order, with the same type, rule_id, severity and parameters.
C2_RoundTrip == (rs # Absent /\ restored # Absent) => restored = rs

\* the serialized rules of a text that name a type the registry does not hold
C3_UnregisteredRules(text) ==
    { n \in 1..Len(Get(json_loads_object(text, Len(text)), "rules", <<>>)) :
        /\ rule_type_of(json_loads_object(text, Len(text)).rules[n]) # ""
        /\ rule_type_of(json_loads_object(text, Len(text)).rules[n])
              \notin DOMAIN RuleRegistry_rules }

\* C3: deserializing a rule set fails with an unknown-rule-type error whenever a
\* serialized rule's type is not registered; it never returns a rule set with
\* fewer rules than the serialized form lists.
C3_UnknownTypeFails ==
    (restored # Absent /\ C3_UnregisteredRules(serialized) # {})
    => restored = [error |-> "UnknownRuleType"]

(***************************************************************************)
(* Concurrent use of one detector: two callers submit the same invoice,    *)
(* each running the caller's protocol of duplicate_example.py              *)
(*     result = detector.check_duplicate(invoice)                          *)
(*     if not result["is_duplicate"]:                                      *)
(*         detector.add_invoice(invoice["invoice_id"], invoice)            *)
(* The detector holds no lock, so the calls of the two callers interleave; *)
(* add_invoice is three updates, one per index.                            *)
(***************************************************************************)

Callers == {1, 2}

\* similarity_threshold default of check_duplicate
DefaultThreshold == Rat(8, 10)

InitConc ==
    /\ SimIdle /\ RuleIdle /\ SerIdle /\ EngIdle /\ CollIdle
    /\ result = None
    /\ call = NoCall
    /\ \E stored \in SeqsUpTo(DetInvoices, 1) :
          /\ invoice_history = IF stored = <<>> THEN <<>>
                               ELSE add_invoice_history(<<>>, stored[1].invoice_id, stored[1])
          /\ history_keys = IF stored = <<>> THEN <<>> ELSE <<stored[1].invoice_id>>
          /\ invoice_hashes = IF stored = <<>> THEN <<>>
                              ELSE add_invoice_hashes(<<>>, stored[1].invoice_id, stored[1])
          /\ vendor_invoices = IF stored = <<>> THEN <<>>
                               ELSE add_invoice_buckets(<<>>, stored[1].invoice_id, stored[1])
    /\ submitted \in DetInvoices
    /\ pc = [c \in Callers |-> "check"]
    /\ verdict = [c \in Callers |-> Absent]

\* result = detector.check_duplicate(invoice); if not result["is_duplicate"]: ...
CallerCheck(c) ==
    /\ pc[c] = "check"
    /\ verdict' = [verdict EXCEPT ![c] =
                      check_duplicate(invoice_history, history_keys, invoice_hashes,
                                      vendor_invoices, submitted, DefaultThreshold)]
    /\ pc' = [pc EXCEPT ![c] = IF verdict'[c].is_duplicate THEN "done" ELSE "add_history"]
    /\ UNCHANGED <<detVars, submitted, simVars, ruleVars, serVars, engVars, collVars>>

\* add_invoice: self.invoice_history[invoice_id] = invoice_data
CallerAddHistory(c) ==
    /\ pc[c] = "add_history"
    /\ invoice_history' = add_invoice_history(invoice_history, submitted.invoice_id, submitted)
    /\ history_keys' = KeysSet(history_keys, invoice_history, submitted.invoice_id)
    /\ pc' = [pc EXCEPT ![c] = "add_hash"]
    /\ UNCHANGED <<invoice_hashes, vendor_invoices, result, call, verdict, submitted,
                   simVars, ruleVars, serVars, engVars, collVars>>

\* add_invoice: self.invoice_hashes[invoice_id] = invoice_hash
CallerAddHash(c) ==
    /\ pc[c] = "add_hash"
    /\ invoice_hashes' = add_invoice_hashes(invoice_hashes, submitted.invoice_id, submitted)
    /\ pc' = [pc EXCEPT ![c] = "add_vendor"]
    /\ UNCHANGED <<invoice_history, history_keys, vendor_invoices, result, call, verdict,
                   submitted, simVars, ruleVars, serVars, engVars, collVars>>

\* add_invoice: self.vendor_invoices[vendor].append(invoice_id)
CallerAddVendor(c) ==
    /\ pc[c] = "add_vendor"
    /\ vendor_invoices' = add_invoice_buckets(vendor_invoices, submitted.invoice_id, submitted)
    /\ pc' = [pc EXCEPT ![c] = "done"]
    /\ UNCHANGED <<invoice_history, history_keys, invoice_hashes, result, call, verdict,
                   submitted, simVars, ruleVars, serVars, engVars, collVars>>

NextConc ==
    \E c \in Callers :
        \/ CallerCheck(c)
        \/ CallerAddHistory(c)
        \/ CallerAddHash(c)
        \/ CallerAddVendor(c)

SpecConc == InitConc /\ [][NextConc]_vars

\* C6: when two callers concurrently submit the same new invoice, each running
\* check_duplicate and then add_invoice if the verdict is non-duplicate, they
\* cannot both receive a non-duplicate verdict.
C6_AtMostOneNew ==
    ~ \A c \in Callers : verdict[c] # Absent /\ ~verdict[c].is_duplicate

(***************************************************************************)
(* Rule checks (audit/rules.py).  Amounts and tolerances are in cents.  A  *)
(* value of the policy data is a number [num |-> n] or a string            *)
(* [str |-> s]; a message is the sequence of its literal parts and of its  *)
(* amounts formatted with two decimals.  The timestamp of an AuditResult   *)
(* is left out.                                                            *)
(***************************************************************************)

\* AuditResult(rule_id, passed, message, severity)
AuditResult(rule_id, passed, message, severity) ==
    [rule_id |-> rule_id, passed |-> passed, message |-> message, severity |-> severity]

\* the floating-point comparison abs(expected_total - total) <= self.tolerance for
\* the <<subtotal, tax, total, tolerance>> whose difference is exactly the
\* tolerance: the ones for which the computed difference rounds to at most the
\* tolerance (0.1 + 0.2 - 0.31 does; 1.0 - 1.01 and 2.0 - 1.99 do not)
RoundsWithinTolerance ==
    { <<10, 20, 31, 1>>, <<200, 0, 205, 5>>, <<120000, 9600, 129601, 1>> }

\* variant of the comparison that accepts an exact match only
within_tolerance_Exact(subtotal, tax, total, tolerance) ==
    subtotal + tax = total

\* abs(expected_total - total) <= self.tolerance
within_tolerance(subtotal, tax, total, tolerance) ==
    IF Abs(subtotal + tax - total) = tolerance
    THEN <<subtotal, tax, total, tolerance>> \in RoundsWithinTolerance
    ELSE Abs(subtotal + tax - total) < tolerance

\* the comparison and the two results that follow the skip test
total_matches_result(r, subtotal, tax, total) ==
    IF within_tolerance(subtotal, tax, total, r.attrs.tolerance)
    THEN AuditResult(r.attrs.rule_id, TRUE,
                     <<"Total ($", Format2f(total), ") matches subtotal ($",
                       Format2f(subtotal), ") + tax ($", Format2f(tax), ")">>,
                     r.attrs.severity)
    ELSE AuditResult(r.attrs.rule_id, FALSE,
                     <<"Total ($", Format2f(total), ") doesn't match subtotal ($",
                       Format2f(subtotal), ") + tax ($", Format2f(tax), ") = $",
                       Format2f(subtotal + tax)>>,
                     r.attrs.severity)

\* TotalMatchesCalculationRule.check(invoice_data, context)
TotalMatchesCalculationRule_check(r, invoice_data, context) ==
    IF Get(invoice_data, "subtotal", 0) = 0 \/ Get(invoice_data, "total", 0) = 0
    THEN AuditResult(r.attrs.rule_id, TRUE, <<"Skipped check due to missing values">>,
                     r.attrs.severity)
    ELSE total_matches_result(r, invoice_data.subtotal, Get(invoice_data, "tax", 0),
                              invoice_data.total)

\* the numbers that strings of the policy data denote: float("1000") = 1000.0
FloatOfString == [ s \in {"1000", "1e3"} |-> 100000 ]

\* float(value): the number, or a ValueError for a string that is not a number
float(value) ==
    IF "num" \in DOMAIN value THEN [num |-> value.num]
    ELSE IF value.str \in DOMAIN FloatOfString THEN [num |-> FloatOfString[value.str]]
    ELSE [error |-> "ValueError"]

\* isinstance(policy_data, dict)
IsDict(value) == DOMAIN value \cap {"num", "str"} = {}

\* "if context and "policy_data" in context": context is None, or a dict that
\* counts as true when it is not empty
HasPolicyData(context) ==
    "absent" \notin DOMAIN context /\ "policy_data" \in DOMAIN context

\* variant of the limit that is always the rule's own max_amount
effective_max_amount_Own(r, context) ==
    [num |-> r.attrs.max_amount]

\* the max_amount the check compares with: the rule's own, or the one of the
\* policy data converted with float()
effective_max_amount(r, context) ==
    IF HasPolicyData(context)
       /\ IsDict(context.policy_data)
       /\ "max_amount" \in DOMAIN context.policy_data
    THEN float(context.policy_data.max_amount)
    ELSE [num |-> r.attrs.max_amount]

\* the comparison of the total with max_amount and the two results
max_amount_result(r, total, max_amount) ==
    IF "error" \in DOMAIN max_amount THEN max_amount           \* raised by float()
    ELSE IF total > max_amount.num
    THEN AuditResult(r.attrs.rule_id, FALSE,
                     <<"Invoice total ($", Format2f(total),
                       ") exceeds maximum allowed amount ($", Format2f(max_amount.num), ")">>,
                     r.attrs.severity)
    ELSE AuditResult(r.attrs.rule_id, TRUE,
                     <<"Invoice total ($", Format2f(total), ") is within allowed limit">>,
                     r.attrs.severity)

\* MaxAmountRule.check(invoice_data, context)
MaxAmountRule_check(r, invoice_data, context) ==
    max_amount_result(r, Get(invoice_data, "total", 0), effective_max_amount(r, context))

\* sum(item.get("price", 0.0) * item.get("quantity", 1.0) for item in line_items)
\* over the first n line items
RECURSIVE line_sum(_, _)
line_sum(line_items, n) ==
    IF n = 0 THEN 0
    ELSE line_sum(line_items, n - 1)
         + Get(line_items[n], "price", 0) * Get(line_items[n], "quantity", 1)

\* the floating-point comparison abs(line_sum - subtotal) <= self.tolerance for the
\* <<line_sum, subtotal, tolerance>> whose difference is exactly the tolerance:
\* the ones for which it holds (225.00 against 225.01 and 224.99 at 0.01 do;
\* 225.00 against 225.05 and 224.95 at 0.05 do not)
LineSumRoundsWithinTolerance ==
    { <<22500, 22501, 1>>, <<22500, 22499, 1>> }

\* abs(line_sum - subtotal) <= self.tolerance
line_sum_within_tolerance(sum, subtotal, tolerance) ==
    IF Abs(sum - subtotal) = tolerance
    THEN <<sum, subtotal, tolerance>> \in LineSumRoundsWithinTolerance
    ELSE Abs(sum - subtotal) < tolerance

\* the comparison and the two results that follow the skip test
line_items_sum_result(r, sum, subtotal) ==
    IF line_sum_within_tolerance(sum, subtotal, r.attrs.tolerance)
    THEN AuditResult(r.attrs.rule_id, TRUE,
                     <<"Line items sum ($", Format2f(sum), ") matches subtotal ($",
                       Format2f(subtotal), ")">>,
                     r.attrs.severity)
    ELSE AuditResult(r.attrs.rule_id, FALSE,
                     <<"Line items sum ($", Format2f(sum), ") doesn't match subtotal ($",
                       Format2f(subtotal), ")">>,
                     r.attrs.severity)

\* variant of LineItemsSumRule.check that compares without the skip test
LineItemsSumRule_check_NoSkip(r, invoice_data, context) ==
    line_items_sum_result(r, line_sum(Get(invoice_data, "line_items", <<>>),
                                      Len(Get(invoice_data, "line_items", <<>>))),
                          Get(invoice_data, "subtotal", 0))

\* LineItemsSumRule.check(invoice_data, context)
LineItemsSumRule_check(r, invoice_data, context) ==
    IF Get(invoice_data, "line_items", <<>>) = <<>> \/ Get(invoice_data, "subtotal", 0) = 0
    THEN AuditResult(r.attrs.rule_id, TRUE, <<"Skipped check due to missing values">>,
                     r.attrs.severity)
    ELSE line_items_sum_result(r, line_sum(invoice_data.line_items,
                                           Len(invoice_data.line_items)),
                               invoice_data.subtotal)

\* "not invoice_data[field]": the empty string, the number 0 and the empty list
\* count as false
IsFalsy(field, value) ==
    CASE field \in {"subtotal", "tax", "total"} -> value = 0
      [] field = "line_items" -> value = <<>>
      [] OTHER -> value = ""

\* missing_fields after the loop over the first n required fields
RECURSIVE missing_fields(_, _, _)
missing_fields(required_fields, invoice_data, n) ==
    IF n = 0 THEN <<>>
    ELSE IF \/ required_fields[n] \notin DOMAIN invoice_data
            \/ IsFalsy(required_fields[n], invoice_data[required_fields[n]])
    THEN Append(missing_fields(required_fields, invoice_data, n - 1), required_fields[n])
    ELSE missing_fields(required_fields, invoice_data, n - 1)

\* the two results of RequiredFieldsRule.check
required_fields_result(r, missing) ==
    IF missing # <<>>
    THEN AuditResult(r.attrs.rule_id, FALSE,
                     <<"Invoice is missing required fields: ", missing>>, r.attrs.severity)
    ELSE AuditResult(r.attrs.rule_id, TRUE, <<"Invoice has all required fields">>,
                     r.attrs.severity)

\* RequiredFieldsRule.check(invoice_data, context)
RequiredFieldsRule_check(r, invoice_data, context) ==
    required_fields_result(r, missing_fields(r.attrs.required_fields, invoice_data,
                                             Len(r.attrs.required_fields)))

\* the list the check compares with: the rule's own allowed_categories, or the
\* list of the policy data
effective_allowed_categories(r, context) ==
    IF HasPolicyData(context)
       /\ IsDict(context.policy_data)
       /\ "allowed_categories" \in DOMAIN context.policy_data
    THEN context.policy_data.allowed_categories.list
    ELSE r.attrs.allowed_categories

\* [c.lower() for c in allowed_categories], used for membership tests only
allowed_categories_lower(allowed_categories) ==
    { Lower(allowed_categories[i]) : i \in 1..Len(allowed_categories) }

\* the set unauthorized_categories after the first n line items: the non-empty
\* lower-cased categories that are not in the list
RECURSIVE unauthorized_categories(_, _, _)
unauthorized_categories(line_items, allowed_lower, n) ==
    IF n = 0 THEN {}
    ELSE LET category == Lower(Get(line_items[n], "category", ""))
             before == unauthorized_categories(line_items, allowed_lower, n - 1)
         IN  IF category # "" /\ category \notin allowed_lower
             THEN before \cup {category}
             ELSE before

\* the two results of the check; the failing message joins the set of
\* unauthorized categories, whose order is not determined
allowed_categories_result(r, unauthorized) ==
    IF unauthorized # {}
    THEN AuditResult(r.attrs.rule_id, FALSE,
                     <<"Invoice contains unauthorized categories: ", unauthorized>>,
                     r.attrs.severity)
    ELSE AuditResult(r.attrs.rule_id, TRUE,
                     <<"All line item categories are allowed">>, r.attrs.severity)

\* AllowedCategoriesRule.check(invoice_data, context)
AllowedCategoriesRule_check(r, invoice_data, context) ==
    LET line_items == Get(invoice_data, "line_items", <<>>)
    IN  IF line_items = <<>>
        THEN AuditResult(r.attrs.rule_id, TRUE, <<"No line items to check">>,
                         r.attrs.severity)
        ELSE allowed_categories_result(r,
                 unauthorized_categories(line_items,
                     allowed_categories_lower(effective_allowed_categories(r, context)),
                     Len(line_items)))

\* rule.check(invoice_data, context), dispatched on the class of the rule
rule_check(r, invoice_data, context) ==
    CASE r.class = "TotalMatchesCalculationRule" ->
            TotalMatchesCalculationRule_check(r, invoice_data, context)
      [] r.class = "LineItemsSumRule" ->
            LineItemsSumRule_check(r, invoice_data, context)
      [] r.class = "RequiredFieldsRule" ->
            RequiredFieldsRule_check(r, invoice_data, context)
      [] r.class = "MaxAmountRule" ->
            MaxAmountRule_check(r, invoice_data, context)
      [] r.class = "AllowedCategoriesRule" ->
            AllowedCategoriesRule_check(r, invoice_data, context)

(***************************************************************************)
(* Rule study: one rule instance checks one invoice under one context.     *)
(***************************************************************************)

\* the invoice dict with the given keys only
Amounts(invoice_data, keys) == [k \in keys |-> invoice_data[k]]

CalculationRules ==
    { NewRule("TotalMatchesCalculationRule", [tolerance |-> t]) : t \in {1, 5} }

\* invoices with and without each of the three amounts
CalculationInvoices ==
    { Amounts([subtotal |-> st, tax |-> tx, total |-> tt], keys) :
        st \in {0, 10, 100, 200, 120000},
        tx \in {0, 20, 9600},
        tt \in {0, 31, 101, 199, 205, 129600, 129601, 130000},
        keys \in { {"subtotal", "tax", "total"}, {"tax", "total"},
                   {"subtotal", "total"}, {"subtotal", "tax"} } }

MaxAmountRules ==
    { NewRule("MaxAmountRule", <<>>),
      NewRule("MaxAmountRule", [max_amount |-> 100000]),
      NewRule("MaxAmountRule", [max_amount |-> 50000, severity |-> "low"]) }

MaxAmountInvoices ==
    { Amounts([total |-> tt], {"total"}) :
        tt \in {0, 50000, 100000, 100001, 129600, 500000, 600000} } \cup { <<>> }

LineItemsSumRules ==
    { NewRule("LineItemsSumRule", [tolerance |-> t]) : t \in {1, 5} }

\* line-item lists: none, one item, items without a price or a quantity
RuleLineItems ==
    { <<>>,
      <<ItemPaper>>,
      <<ItemPaper, [description |-> <<"a">>, price |-> 0]>>,
      <<[description |-> <<"a", "b">>]>>,
      <<[price |-> 10, quantity |-> 3], [price |-> 22470]>> }

\* invoices with and without a subtotal and line items
LineItemsInvoices ==
    { Amounts([subtotal |-> st, line_items |-> li], keys) :
        st \in {0, 22495, 22499, 22500, 22501, 22505, 23000},
        li \in RuleLineItems,
        keys \in { {"subtotal", "line_items"}, {"subtotal"}, {"line_items"} } }

RequiredFieldsRules ==
    { NewRule("RequiredFieldsRule", <<>>),
      NewRule("RequiredFieldsRule", [required_fields |-> <<"total", "line_items", "tax">>]) }

\* invoices with present, empty and missing fields
RequiredFieldsInvoices ==
    { Amounts([invoice_id |-> id, vendor |-> "Acme", date |-> d, total |-> tt,
               line_items |-> li], keys) :
        id \in {"INV-1", ""}, d \in {"2023-05-15", ""}, tt \in {0, 129600},
        li \in {<<>>, <<ItemPaper>>},
        keys \in { {"invoice_id", "vendor", "date", "total", "line_items"},
                   {"invoice_id", "vendor", "date", "total"},
                   {"invoice_id", "total", "line_items"} } }

AllowedCategoriesRules ==
    { NewRule("AllowedCategoriesRule", <<>>),
      NewRule("AllowedCategoriesRule", [allowed_categories |-> <<"office", "Travel">>]) }

\* line items with a category in either case, an empty category and no category
CategoryItems ==
    { [description |-> <<"a">>, category |-> c] : c \in {"office", "OFFICE", "travel", "meals", ""} }
    \cup { [description |-> <<"a">>] }

\* invoices with no, one and two line items, and invoices without the key
CategoryInvoices ==
    { [line_items |-> li] :
        li \in {<<>>} \cup { <<i>> : i \in CategoryItems }
                     \cup { <<i, j>> : i, j \in CategoryItems } }
    \cup { <<>> }

\* contexts: None, an empty dict, policy data that is not a dict, policy data
\* without and with allowed_categories
CategoryContexts ==
    { Absent, <<>>,
      [policy_data |-> [str |-> "none"]],
      [policy_data |-> <<>>],
      [policy_data |-> [allowed_categories |-> [list |-> <<>>]]],
      [policy_data |-> [allowed_categories |-> [list |-> <<"Travel", "meals">>]]] }

\* contexts: None, an empty dict, policy data that is not a dict, policy data
\* without and with max_amount (a number, a numeric string, another string)
Contexts ==
    { Absent, <<>>,
      [policy_data |-> [str |-> "none"]],
      [policy_data |-> <<>>],
      [policy_data |-> [max_amount |-> [num |-> 100000]]],
      [policy_data |-> [max_amount |-> [num |-> 200000]]],
      [policy_data |-> [max_amount |-> [str |-> "1000"]]],
      [policy_data |-> [max_amount |-> [str |-> "n/a"]]] }

InitRules ==
    /\ DetIdle /\ ConcIdle /\ SimIdle /\ SerIdle /\ EngIdle /\ CollIdle
    /\ \/ /\ rule \in CalculationRules
          /\ rule_input \in [invoice : CalculationInvoices, context : {Absent}]
       \/ /\ rule \in MaxAmountRules
          /\ rule_input \in [invoice : MaxAmountInvoices, context : Contexts]
       \/ /\ rule \in LineItemsSumRules
          /\ rule_input \in [invoice : LineItemsInvoices, context : {Absent}]
       \/ /\ rule \in RequiredFieldsRules
          /\ rule_input \in [invoice : RequiredFieldsInvoices, context : {Absent}]
       \/ /\ rule \in AllowedCategoriesRules
          /\ rule_input \in [invoice : CategoryInvoices, context : CategoryContexts]
    /\ rule_result = Absent

\* rule_result = rule.check(invoice_data, context)
RuleCheck ==
    /\ rule_result = Absent
    /\ rule_result' = rule_check(rule, rule_input.invoice, rule_input.context)
    /\ UNCHANGED <<rule, rule_input, detVars, concVars, simVars, serVars, engVars, collVars>>

NextRules == RuleCheck

SpecRules == InitRules /\ [][NextRules]_vars

\* the amounts of the checked invoice, 0 for a missing one, and their difference
C9_Subtotal == Get(rule_input.invoice, "subtotal", 0)
C9_Tax == Get(rule_input.invoice, "tax", 0)
C9_Total == Get(rule_input.invoice, "total", 0)
C9_Difference == Abs(C9_Subtotal + C9_Tax - C9_Total)
C9_Checked == rule_result # Absent /\ rule.class = "TotalMatchesCalculationRule"
C9_FailsNamingExpected ==
    /\ ~rule_result.passed
    /\ rule_result.message[Len(rule_result.message)] = Format2f(C9_Subtotal + C9_Tax)

C10_Checked == rule_result # Absent /\ rule.class = "MaxAmountRule"
C10_HasPolicyMax ==
    /\ "policy_data" \in DOMAIN rule_input.context
    /\ "max_amount" \in DOMAIN rule_input.context.policy_data
C10_PolicyMaxIsNumber ==
    \/ "num" \in DOMAIN rule_input.context.policy_data.max_amount
    \/ rule_input.context.policy_data.max_amount.str \in DOMAIN FloatOfString
C10_PolicyMax ==
    IF "num" \in DOMAIN rule_input.context.policy_data.max_amount
    THEN rule_input.context.policy_data.max_amount.num
    ELSE FloatOfString[rule_input.context.policy_data.max_amount.str]

\* C10: when context.policy_data contains max_amount, MaxAmountRule.check passes
\* if and only if total <= that policy value, whatever the rule's own max_amount
\* is; the rule's own max_amount decides only when the context carries no policy
\* max_amount.
C10_PolicyOverrides ==
    C10_Checked
    => IF C10_HasPolicyMax
       THEN C10_PolicyMaxIsNumber
            => rule_result.passed = (Get(rule_input.invoice, "total", 0) <= C10_PolicyMax)
       ELSE rule_result.passed = (Get(rule_input.invoice, "total", 0) <= rule.attrs.max_amount)

\* C10 witness: a rule with max_amount 5000 under a policy max_amount of 1000 failed
\* a total of 1296.00.
C10_Witness ==
    /\ C10_Checked
    /\ rule.attrs.max_amount = 500000
    /\ rule_input.context = [policy_data |-> [max_amount |-> [num |-> 100000]]]
    /\ rule_input.invoice = [total |-> 129600]
    /\ ~rule_result.passed

C11_Checked == rule_result # Absent /\ rule.class = "LineItemsSumRule"

\* C11: LineItemsSumRule.check returns passed = true for every invoice whose
\* subtotal is 0 or missing, or that has no line items, whatever the quantities
\* and prices of its line items are.
C11_SkipNotFail ==
    ( /\ C11_Checked
      /\ \/ Get(rule_input.invoice, "subtotal", 0) = 0
         \/ Get(rule_input.invoice, "line_items", <<>>) = <<>> )
    => rule_result.passed

\* C11 witness: an invoice with subtotal 0 whose line items sum to 225.00 was
\* checked and passed.
C11_Witness ==
    /\ C11_Checked
    /\ rule_input.invoice = [subtotal |-> 0, line_items |-> <<ItemPaper>>]
    /\ rule_result.passed

(***************************************************************************)
(* RuleSet.audit_invoice and the RuleEngine.  A value a call returns is    *)
(* Returned(value), an exception that leaves the call is Raised(name).     *)
(* The timestamp of a result is left out: no operation reads it.           *)
(***************************************************************************)

Returned(value) == [returned |-> value]
Raised(exception) == [raised |-> exception]

\* variant of audit_step that stops collecting results after a failed rule
audit_step_StopAtFailure(loop, checked) ==
    IF loop.raised # None THEN loop
    ELSE IF "error" \in DOMAIN checked THEN [loop EXCEPT !.raised = checked.error]
    ELSE IF loop.results # <<>> /\ ~loop.results[Len(loop.results)].passed THEN loop
    ELSE [loop EXCEPT !.results = Append(@, checked)]

\* one pass of "for rule in self.rules": the result of the check is appended;
\* an exception raised by the check leaves the loop and the method
audit_step(loop, checked) ==
    IF loop.raised # None THEN loop
    ELSE IF "error" \in DOMAIN checked THEN [loop EXCEPT !.raised = checked.error]
    ELSE [loop EXCEPT !.results = Append(@, checked)]

\* results after the loop over the first n rules
RECURSIVE audit_results(_, _, _, _)
audit_results(rules, invoice_data, context, n) ==
    IF n = 0 THEN [results |-> <<>>, raised |-> None]
    ELSE audit_step(audit_results(rules, invoice_data, context, n - 1),
                    rule_check(rules[n], invoice_data, context))

\* sum(1 for r in results if r["passed"]) over the first n results
RECURSIVE count_passed(_, _)
count_passed(results, n) ==
    IF n = 0 THEN 0
    ELSE count_passed(results, n - 1) + (IF results[n].passed THEN 1 ELSE 0)

SeverityLevels == {"high", "medium", "low"}

\* severity_counts after the loop over the first n results
RECURSIVE count_severities(_, _)
count_severities(results, n) ==
    IF n = 0 THEN [level \in SeverityLevels |-> 0]
    ELSE IF ~results[n].passed /\ Lower(results[n].severity) \in SeverityLevels
    THEN [count_severities(results, n - 1) EXCEPT ![Lower(results[n].severity)] = @ + 1]
    ELSE count_severities(results, n - 1)

\* the dict audit_invoice returns for the collected results
audit_summary(rule_set, invoice_data, results) ==
    [invoice_id |-> Get(invoice_data, "invoice_id", "UNKNOWN"),
     ruleset_name |-> rule_set.name,
     total_rules |-> Len(rule_set.rules),
     passed_rules |-> count_passed(results, Len(results)),
     failed_rules |-> Len(results) - count_passed(results, Len(results)),
     severity_counts |-> count_severities(results, Len(results)),
     results |-> results]

audit_outcome(rule_set, invoice_data, loop) ==
    IF loop.raised # None THEN Raised(loop.raised)
    ELSE Returned(audit_summary(rule_set, invoice_data, loop.results))

\* RuleSet.audit_invoice(invoice_data, context)
RuleSet_audit_invoice(rule_set, invoice_data, context) ==
    audit_outcome(rule_set, invoice_data,
                  audit_results(rule_set.rules, invoice_data, context, Len(rule_set.rules)))

\* variant of add_rule_set that keeps the rule set already registered under the name
add_rule_set_KeepFirst(sets, rule_set) ==
    [rule_sets |-> IF rule_set.name \in DOMAIN sets.rule_sets THEN sets.rule_sets
                   ELSE DictSet(sets.rule_sets, rule_set.name, rule_set),
     names |-> KeysSet(sets.names, sets.rule_sets, rule_set.name)]

\* RuleEngine.add_rule_set: self.rule_sets[rule_set.name] = rule_set
add_rule_set(sets, rule_set) ==
    [rule_sets |-> DictSet(sets.rule_sets, rule_set.name, rule_set),
     names |-> KeysSet(sets.names, sets.rule_sets, rule_set.name)]

\* the keys of a dict without one key, in their order
RECURSIVE KeysDel(_, _, _)
KeysDel(keys, key, n) ==
    IF n = 0 THEN <<>>
    ELSE IF keys[n] = key THEN KeysDel(keys, key, n - 1)
    ELSE Append(KeysDel(keys, key, n - 1), keys[n])

\* RuleEngine.remove_rule_set(name)
remove_rule_set(sets, name) ==
    IF name \in DOMAIN sets.rule_sets
    THEN [rule_sets |-> [k \in DOMAIN sets.rule_sets \ {name} |-> sets.rule_sets[k]],
          names |-> KeysDel(sets.names, name, Len(sets.names))]
    ELSE sets

\* RuleEngine.get_rule_set(name): self.rule_sets.get(name)
get_rule_set(sets, name) == Get(sets.rule_sets, name, Absent)

\* RuleEngine.list_rule_sets()
list_rule_sets(sets) == sets.names

\* "if rule_set_name:" is false for None and for the empty string
IsTruthyName(rule_set_name) == rule_set_name # None /\ rule_set_name # ""

\* the dict returned for a name that get_rule_set does not find
not_found(invoice_data, rule_set_name) ==
    [error |-> <<"Rule set '", rule_set_name, "' not found">>,
     invoice_id |-> Get(invoice_data, "invoice_id", "UNKNOWN")]

\* the branch "if rule_set_name:" of RuleEngine.audit_invoice
audit_named(sets, invoice_data, rule_set_name, context) ==
    IF get_rule_set(sets, rule_set_name) = Absent
    THEN Returned(not_found(invoice_data, rule_set_name))
    ELSE RuleSet_audit_invoice(get_rule_set(sets, rule_set_name), invoice_data, context)

\* one pass of "for name, rule_set in self.rule_sets.items()"
all_results_step(loop, name, audited) ==
    IF loop.raised # None THEN loop
    ELSE IF "raised" \in DOMAIN audited THEN [loop EXCEPT !.raised = audited.raised]
    ELSE [loop EXCEPT !.all_results = DictSet(@, name, audited.returned)]

\* all_results after the loop over the first n rule sets
RECURSIVE all_results_loop(_, _, _, _)
all_results_loop(sets, invoice_data, context, n) ==
    IF n = 0 THEN [all_results |-> <<>>, raised |-> None]
    ELSE all_results_step(all_results_loop(sets, invoice_data, context, n - 1),
                          sets.names[n],
                          RuleSet_audit_invoice(sets.rule_sets[sets.names[n]],
                                                invoice_data, context))

\* sum(r[field] for r in all_results.values()) over the first n rule sets
RECURSIVE sum_field(_, _, _, _)
sum_field(all_results, names, field, n) ==
    IF n = 0 THEN 0
    ELSE sum_field(all_results, names, field, n - 1) + all_results[names[n]][field]

\* variant of sum_severities that assigns the counts of a rule set instead of adding them
sum_severities_Last(all_results, names, n) ==
    IF n = 0 THEN [level \in SeverityLevels |-> 0]
    ELSE all_results[names[n]].severity_counts

\* the aggregated severity_counts after the first n rule sets
RECURSIVE sum_severities(_, _, _)
sum_severities(all_results, names, n) ==
    IF n = 0 THEN [level \in SeverityLevels |-> 0]
    ELSE [level \in SeverityLevels |->
            sum_severities(all_results, names, n - 1)[level]
            + all_results[names[n]].severity_counts[level]]

\* the dict the audit of all rule sets returns
aggregate(invoice_data, all_results, names) ==
    [invoice_id |-> Get(invoice_data, "invoice_id", "UNKNOWN"),
     total_rule_sets |-> Len(names),
     total_rules |-> sum_field(all_results, names, "total_rules", Len(names)),
     passed_rules |-> sum_field(all_results, names, "passed_rules", Len(names)),
     failed_rules |-> sum_field(all_results, names, "failed_rules", Len(names)),
     severity_counts |-> sum_severities(all_results, names, Len(names)),
     rule_set_results |-> all_results]

audit_all_outcome(invoice_data, loop, names) ==
    IF loop.raised # None THEN Raised(loop.raised)
    ELSE Returned(aggregate(invoice_data, loop.all_results, names))

\* the branch "else" of RuleEngine.audit_invoice
audit_all(sets, invoice_data, context) ==
    audit_all_outcome(invoice_data,
                      all_results_loop(sets, invoice_data, context, Len(sets.names)),
                      sets.names)

\* RuleEngine.audit_invoice(invoice_data, rule_set_name, context)
RuleEngine_audit_invoice(sets, invoice_data, rule_set_name, context) ==
    IF IsTruthyName(rule_set_name)
    THEN audit_named(sets, invoice_data, rule_set_name, context)
    ELSE audit_all(sets, invoice_data, context)

(***************************************************************************)
(* Rule files.  The parsed content of a file is [list |-> items] for an    *)
(* array of rule-set dicts and [dict |-> members] for an object, whose     *)
(* members <<key, value>> are in file order with every value tagged by its *)
(* type: [str |-> s], [list |-> l] or [dict |-> d].                        *)
(***************************************************************************)

\* "key in data"
has_key(members, key) == \E i \in 1..Len(members) : members[i][1] = key

\* isinstance(value, dict)
IsDictValue(value) == "dict" \in DOMAIN value

UntaggedValue(value) ==
    IF "str" \in DOMAIN value THEN value.str
    ELSE IF "list" \in DOMAIN value THEN value.list
    ELSE value.dict

\* the dict of the first n members of an object
RECURSIVE dict_of_members(_, _)
dict_of_members(members, n) ==
    IF n = 0 THEN <<>>
    ELSE DictSet(dict_of_members(members, n - 1), members[n][1],
                 UntaggedValue(members[n][2]))

\* data[key] with its tag
RECURSIVE member_value(_, _, _)
member_value(members, key, n) ==
    IF members[n][1] = key THEN members[n][2] ELSE member_value(members, key, n - 1)

\* RuleSet.from_dict(data) followed by add_rule_set for an object that has the
\* keys "name" and "rules": iterating over a "rules" that is a non-empty dict
\* yields its keys, whose .get raises AttributeError; a "name" that is a dict
\* cannot be a key of self.rule_sets (TypeError: unhashable)
from_dict_of_object(members) ==
    IF /\ IsDictValue(member_value(members, "rules", Len(members)))
       /\ DOMAIN member_value(members, "rules", Len(members)).dict # {}
    THEN [error |-> "AttributeError"]
    ELSE IF IsDictValue(member_value(members, "name", Len(members)))
    THEN [error |-> "TypeError"]
    ELSE IF IsDictValue(member_value(members, "rules", Len(members)))
    THEN from_dict([k \in DOMAIN dict_of_members(members, Len(members)) \ {"rules"} |->
                        dict_of_members(members, Len(members))[k]])
    ELSE from_dict(dict_of_members(members, Len(members)))

\* rule_set = RuleSet.from_dict(...); self.add_rule_set(rule_set)
load_add(loop, made) ==
    IF loop.raised # None THEN loop
    ELSE IF "error" \in DOMAIN made THEN [loop EXCEPT !.raised = made.error]
    ELSE [loop EXCEPT !.sets = add_rule_set(@, made)]

\* "for rule_set_data in data" over the first n items of a list
RECURSIVE load_list(_, _, _)
load_list(sets, items, n) ==
    IF n = 0 THEN [sets |-> sets, raised |-> None]
    ELSE load_add(load_list(sets, items, n - 1), from_dict(items[n]))

\* "for name, rule_set_data in data.items()" over the first n members of a dict
RECURSIVE load_map(_, _, _)
load_map(sets, members, n) ==
    IF n = 0 THEN [sets |-> sets, raised |-> None]
    ELSE IF IsDictValue(members[n][2])
    THEN load_add(load_map(sets, members, n - 1),
                  from_dict(DictSet(members[n][2].dict, "name", members[n][1])))
    ELSE load_map(sets, members, n - 1)

\* the branches of load_rule_sets_from_file on the shape of the data
load_data(sets, data) ==
    IF "list" \in DOMAIN data THEN load_list(sets, data.list, Len(data.list))
    ELSE IF has_key(data.dict, "name") /\ has_key(data.dict, "rules")
    THEN load_add([sets |-> sets, raised |-> None], from_dict_of_object(data.dict))
    ELSE load_map(sets, data.dict, Len(data.dict))

\* file_path.endswith('.json') and file_path.endswith(('.yml', '.yaml'))
FileFormats ==
    [path \in {"rules.json", "rules.yml", "rules.txt"} |->
        CASE path = "rules.json" -> "json"
          [] path = "rules.yml" -> "yaml"
          [] path = "rules.txt" -> "unsupported"]

\* RuleEngine.load_rule_sets_from_file(file_path): the rule sets afterwards and
\* the exception raised, if any
load_rule_sets_from_file(sets, file) ==
    IF FileFormats[file.path] = "unsupported"
    THEN [sets |-> sets, raised |-> "ValueError"]
    ELSE load_data(sets, file.data)

(***************************************************************************)
(* The rule engine as a state machine: rule sets are added, removed,       *)
(* looked up and loaded from files, and invoices are audited with one rule *)
(* set or with all of them.                                                *)
(***************************************************************************)

EngineSets == [rule_sets |-> rule_sets, names |-> rule_set_names]

EngineRuleSets ==
    { RuleSet("basic", "", << NewRule("RequiredFieldsRule", <<>>),
                              NewRule("TotalMatchesCalculationRule",
                                      [severity |-> "critical"]) >>),
      RuleSet("basic", "strict", << NewRule("TotalMatchesCalculationRule", [severity |-> "HIGH"]),
                                    NewRule("LineItemsSumRule", [severity |-> "low"]),
                                    NewRule("MaxAmountRule", <<>>) >>),
      RuleSet("policy", "", << NewRule("MaxAmountRule", [max_amount |-> 20000]),
                               NewRule("MaxAmountRule", [max_amount |-> 20000]) >>),
      RuleSet("empty", "", <<>>) }

EngineNames == {"basic", "policy", "empty", "missing"}

\* a consistent invoice, one whose total is off, one without id whose line items
\* do not sum to the subtotal and whose total is above every limit, an empty one
EngineInvoices ==
    { [invoice_id |-> "INV-1", vendor |-> "Acme", date |-> "2023-05-15",
       subtotal |-> 22500, tax |-> 1800, total |-> 24300, line_items |-> <<ItemPaper>>],
      [invoice_id |-> "INV-2", vendor |-> "Acme", date |-> "2023-05-15",
       subtotal |-> 22500, tax |-> 1800, total |-> 25000, line_items |-> <<ItemPaper>>],
      [vendor |-> "", subtotal |-> 22500, tax |-> 1800, total |-> 600000,
       line_items |-> <<ItemPaper, ItemPaper>>],
      <<>> }

EngineContexts ==
    { Absent,
      [policy_data |-> [max_amount |-> [num |-> 1000000]]],
      [policy_data |-> [max_amount |-> [str |-> "n/a"]]] }

\* serialized rule sets as rule files hold them
FileBasic ==
    [name |-> "basic", description |-> "from file",
     rules |-> << [type |-> "total_matches"], [type |-> "max_amount", max_amount |-> 20000] >>]
FilePolicy == [name |-> "policy", rules |-> << [type |-> "max_amount", severity |-> "low"] >>]

\* a single rule set, with and without rules; a list; a map (one of them with
\* an entry that is no rule set; one whose rule sets are named "name" and
\* "rules"); a list of one rule set without name
EngineFileData ==
    { [dict |-> << <<"name", [str |-> "basic"]>>, <<"description", [str |-> "from file"]>>,
                   <<"rules", [list |-> FileBasic.rules]>> >>],
      [dict |-> << <<"name", [str |-> "solo"]>>, <<"description", [str |-> "no rules yet"]>> >>],
      [list |-> << FileBasic, FilePolicy >>],
      [dict |-> << <<"policy", [dict |-> [rules |-> FilePolicy.rules]]>>,
                   <<"basic", [dict |-> [name |-> "other", rules |-> <<>>]]>> >>],
      [dict |-> << <<"version", [str |-> "1.0"]>>,
                   <<"policy", [dict |-> [description |-> "no rules yet"]]>> >>],
      [dict |-> << <<"name", [dict |-> [rules |-> <<>>]]>>,
                   <<"rules", [dict |-> [rules |-> FilePolicy.rules]]>> >>],
      [dict |-> << <<"name", [dict |-> [rules |-> <<>>]]>>,
                   <<"rules", [dict |-> <<>>]>> >>],
      [list |-> << [rules |-> <<>>] >>] }

EngineFiles == [path : DOMAIN FileFormats, data : EngineFileData]

InitEngine ==
    /\ rule_sets = <<>>
    /\ rule_set_names = <<>>
    /\ engine_call = NoCall
    /\ engine_result = NoCall
    /\ DetIdle /\ ConcIdle /\ SimIdle /\ RuleIdle /\ SerIdle /\ CollIdle

AddRuleSet(rule_set) ==
    /\ engine_call = NoCall
    /\ rule_sets' = add_rule_set(EngineSets, rule_set).rule_sets
    /\ rule_set_names' = add_rule_set(EngineSets, rule_set).names
    /\ engine_call' = [op |-> "add_rule_set", rule_set |-> rule_set]
    /\ engine_result' = Returned(Absent)
    /\ UNCHANGED <<detVars, concVars, simVars, ruleVars, serVars, collVars>>

RemoveRuleSet(name) ==
    /\ engine_call = NoCall
    /\ rule_sets' = remove_rule_set(EngineSets, name).rule_sets
    /\ rule_set_names' = remove_rule_set(EngineSets, name).names
    /\ engine_call' = [op |-> "remove_rule_set", name |-> name]
    /\ engine_result' = Returned(Absent)
    /\ UNCHANGED <<detVars, concVars, simVars, ruleVars, serVars, collVars>>

GetRuleSet(name) ==
    /\ engine_call = NoCall
    /\ engine_call' = [op |-> "get_rule_set", name |-> name]
    /\ engine_result' = Returned(get_rule_set(EngineSets, name))
    /\ UNCHANGED <<rule_sets, rule_set_names, detVars, concVars, simVars, ruleVars, serVars, collVars>>

ListRuleSets ==
    /\ engine_call = NoCall
    /\ engine_call' = [op |-> "list_rule_sets"]
    /\ engine_result' = Returned(list_rule_sets(EngineSets))
    /\ UNCHANGED <<rule_sets, rule_set_names, detVars, concVars, simVars, ruleVars, serVars, collVars>>

AuditInvoice(invoice_data, rule_set_name, context) ==
    /\ engine_call = NoCall
    /\ engine_call' = [op |-> "audit_invoice", invoice |-> invoice_data,
                       rule_set_name |-> rule_set_name, context |-> context]
    /\ engine_result' = RuleEngine_audit_invoice(EngineSets, invoice_data, rule_set_name,
                                                 context)
    /\ UNCHANGED <<rule_sets, rule_set_names, detVars, concVars, simVars, ruleVars, serVars, collVars>>

LoadRuleSetsFromFile(file) ==
    /\ engine_call = NoCall
    /\ rule_sets' = load_rule_sets_from_file(EngineSets, file).sets.rule_sets
    /\ rule_set_names' = load_rule_sets_from_file(EngineSets, file).sets.names
    /\ engine_call' = [op |-> "load_rule_sets_from_file", file |-> file]
    /\ engine_result' = IF load_rule_sets_from_file(EngineSets, file).raised # None
                        THEN Raised(load_rule_sets_from_file(EngineSets, file).raised)
                        ELSE Returned(Absent)
    /\ UNCHANGED <<detVars, concVars, simVars, ruleVars, serVars, collVars>>

EngineReturn ==
    /\ engine_call # NoCall
    /\ engine_call' = NoCall
    /\ engine_result' = NoCall
    /\ UNCHANGED <<rule_sets, rule_set_names, detVars, concVars, simVars, ruleVars, serVars, collVars>>

NextEngine ==
    \/ \E rule_set \in EngineRuleSets : AddRuleSet(rule_set)
    \/ \E name \in EngineNames : RemoveRuleSet(name)
    \/ \E name \in EngineNames : GetRuleSet(name)
    \/ ListRuleSets
    \/ \E invoice_data \in EngineInvoices, rule_set_name \in EngineNames \cup {"", None},
          context \in EngineContexts :
            AuditInvoice(invoice_data, rule_set_name, context)
    \/ \E file \in EngineFiles : LoadRuleSetsFromFile(file)
    \/ EngineReturn

SpecEngine == InitEngine /\ [][NextEngine]_vars

\* an audit with the rule set registered under the given name has returned
C12_Audited ==
    /\ engine_call.op = "audit_invoice"
    /\ IsTruthyName(engine_call.rule_set_name)
    /\ engine_call.rule_set_name \in DOMAIN rule_sets
    /\ "returned" \in DOMAIN engine_result

C12_Rules == rule_sets[engine_call.rule_set_name].rules

\* the rules of the audited set that fail on the audited invoice
C12_Failed ==
    { i \in 1..Len(C12_Rules) :
        ~rule_check(C12_Rules[i], engine_call.invoice, engine_call.context).passed }

\* C12: RuleSet.audit_invoice evaluates every rule of the set exactly once, in
\* insertion order, and does not stop at a failed rule: results has one entry
\* per rule, entry i is the result of rule i and carries its id, total_rules is
\* the number of rules and equals passed_rules + failed_rules, and
\* severity_counts counts the failed results only, each under the severity of
\* its rule.
C12_EveryRuleInOrder ==
    C12_Audited
    => /\ Len(engine_result.returned.results) = Len(C12_Rules)
       /\ \A i \in 1..Len(C12_Rules) :
            /\ engine_result.returned.results[i].rule_id = C12_Rules[i].attrs.rule_id
            /\ engine_result.returned.results[i]
                 = rule_check(C12_Rules[i], engine_call.invoice, engine_call.context)
       /\ engine_result.returned.total_rules = Len(C12_Rules)
       /\ engine_result.returned.failed_rules = Cardinality(C12_Failed)
       /\ engine_result.returned.total_rules
            = engine_result.returned.passed_rules + engine_result.returned.failed_rules
       /\ \A level \in SeverityLevels :
            engine_result.returned.severity_counts[level]
              = Cardinality({ i \in C12_Failed : Lower(C12_Rules[i].attrs.severity) = level })

\* C12 witness: a set of three rules was audited, its first rule failed, the
\* two rules after it were evaluated and passed, and the failure was counted.
C12_Witness ==
    /\ C12_Audited
    /\ Len(C12_Rules) = 3
    /\ Len(engine_result.returned.results) = 3
    /\ ~engine_result.returned.results[1].passed
    /\ engine_result.returned.results[2].passed
    /\ engine_result.returned.results[3].passed
    /\ engine_result.returned.severity_counts = [high |-> 1, medium |-> 0, low |-> 0]

\* C13: an error local to one rule never aborts an audit: for every invoice and
\* every context each check returns an AuditResult instead of raising, so an
\* audit with a registered rule set always returns a result for every rule.
C13_AuditNeverRaises ==
    ( /\ engine_call.op = "audit_invoice"
      /\ IsTruthyName(engine_call.rule_set_name)
      /\ engine_call.rule_set_name \in DOMAIN rule_sets )
    => /\ "returned" \in DOMAIN engine_result
       /\ Len(engine_result.returned.results) = Len(C12_Rules)

\* at most one rule set per name, each registered under its own name
C14_Unique ==
    /\ \A i, j \in 1..Len(rule_set_names) : rule_set_names[i] = rule_set_names[j] => i = j
    /\ { rule_set_names[i] : i \in 1..Len(rule_set_names) } = DOMAIN rule_sets
    /\ \A name \in DOMAIN rule_sets : rule_sets[name].name = name

\* get_rule_set(n) and audit_invoice(..., n) use the rule set registered under n
C14_LookupUsesEntry ==
    /\ engine_call.op = "get_rule_set"
       => engine_result.returned = IF engine_call.name \in DOMAIN rule_sets
                                   THEN rule_sets[engine_call.name] ELSE Absent
    /\ C12_Audited
       => /\ engine_result.returned.ruleset_name = engine_call.rule_set_name
          /\ engine_result.returned.total_rules = Len(C12_Rules)

\* add_rule_set registers the rule set under its name and changes no other entry
C14_AddReplacesOnlyThatEntry ==
    engine_call'.op = "add_rule_set"
    => /\ DOMAIN rule_sets' = DOMAIN rule_sets \cup {engine_call'.rule_set.name}
       /\ rule_sets'[engine_call'.rule_set.name] = engine_call'.rule_set
       /\ \A name \in DOMAIN rule_sets \ {engine_call'.rule_set.name} :
            rule_sets'[name] = rule_sets[name]

\* remove_rule_set removes the entry of its name and changes no other entry
C14_RemoveOnlyThatEntry ==
    engine_call'.op = "remove_rule_set"
    => /\ DOMAIN rule_sets' = DOMAIN rule_sets \ {engine_call'.name}
       /\ \A name \in DOMAIN rule_sets' : rule_sets'[name] = rule_sets[name]

\* C14: rule-set names are unique per RuleEngine with last-write-wins: after
\* any sequence of add_rule_set and remove_rule_set calls the engine holds at
\* most one rule set per name, an add under an existing name replaces that
\* entry and only that entry, so that get_rule_set(n) and audit_invoice(..., n)
\* use the rule set most recently added under n.
C14_LastWriteWins ==
    /\ [](C14_Unique /\ C14_LookupUsesEntry)
    /\ [][C14_AddReplacesOnlyThatEntry /\ C14_RemoveOnlyThatEntry]_vars

\* C14 witness: add_rule_set has replaced the rule set "basic" in an engine
\* in which "policy" was registered after the name "basic".
C14_Witness ==
    /\ engine_call.op = "add_rule_set"
    /\ engine_call.rule_set.name = "basic"
    /\ engine_call.rule_set.description = "strict"
    /\ rule_set_names = <<"basic", "policy">>
    /\ rule_sets["basic"] = engine_call.rule_set

\* C15: RuleEngine.audit_invoice called with a rule-set name that is not
\* registered fails with the unknown-rule-set error: it evaluates no rule, does
\* not fall back to the other rule sets and returns no audit counts.
C15_UnknownNameFails ==
    ( /\ engine_call.op = "audit_invoice"
      /\ engine_call.rule_set_name # None
      /\ engine_call.rule_set_name \notin DOMAIN rule_sets )
    => /\ "returned" \in DOMAIN engine_result
       /\ DOMAIN engine_result.returned = {"error", "invoice_id"}

\* an audit without a rule-set name has returned
C16_AuditedAll ==
    /\ engine_call.op = "audit_invoice"
    /\ ~IsTruthyName(engine_call.rule_set_name)
    /\ "returned" \in DOMAIN engine_result

\* the sum of f[name] over the names of a set
RECURSIVE C16_Sum(_, _)
C16_Sum(f, names) ==
    IF names = {} THEN 0
    ELSE f[CHOOSE name \in names : TRUE]
         + C16_Sum(f, names \ {CHOOSE name \in names : TRUE})

C16_PerSet == engine_result.returned.rule_set_results

\* C16: an audit without a rule-set name runs every registered rule set on the
\* invoice exactly once, and its total_rules, passed_rules, failed_rules and
\* each of its high, medium and low severity counts are the sums of the values
\* of the per-set results it returns; with no registered rule set they are 0.
C16_SumsOfPerSetResults ==
    C16_AuditedAll
    => /\ DOMAIN C16_PerSet = DOMAIN rule_sets
       /\ engine_result.returned.total_rule_sets = Cardinality(DOMAIN rule_sets)
       /\ \A name \in DOMAIN rule_sets :
            Returned(C16_PerSet[name])
              = RuleSet_audit_invoice(rule_sets[name], engine_call.invoice, engine_call.context)
       /\ \A field \in {"total_rules", "passed_rules", "failed_rules"} :
            engine_result.returned[field]
              = C16_Sum([name \in DOMAIN rule_sets |-> C16_PerSet[name][field]],
                        DOMAIN rule_sets)
       /\ \A level \in SeverityLevels :
            engine_result.returned.severity_counts[level]
              = C16_Sum([name \in DOMAIN rule_sets |-> C16_PerSet[name].severity_counts[level]],
                        DOMAIN rule_sets)
       /\ DOMAIN rule_sets = {}
          => /\ engine_result.returned.total_rules = 0
             /\ engine_result.returned.passed_rules = 0
             /\ engine_result.returned.failed_rules = 0
             /\ engine_result.returned.severity_counts = [level \in SeverityLevels |-> 0]

\* C16 witness: two rule sets with three and two rules were run on an invoice
\* that fails all five rules, four of them of high and one of low severity.
C16_Witness ==
    /\ C16_AuditedAll
    /\ Len(rule_set_names) = 2
    /\ engine_result.returned.total_rules = 5
    /\ engine_result.returned.failed_rules = 5
    /\ engine_result.returned.severity_counts = [high |-> 4, medium |-> 0, low |-> 1]

\* the shape of the content of a rule file: a list of rule-set objects, a map
\* from names to rule-set objects (every value is an object), or a single
\* rule-set object (a name and no object among its values)
C17_Shape(data) ==
    IF "list" \in DOMAIN data THEN "list"
    ELSE IF \A i \in 1..Len(data.dict) : IsDictValue(data.dict[i][2]) THEN "map"
    ELSE IF /\ has_key(data.dict, "name")
            /\ \A i \in 1..Len(data.dict) : ~IsDictValue(data.dict[i][2])
    THEN "single"
    ELSE "other"

\* the names of the rule sets a file contains
C17_Names(data) ==
    CASE C17_Shape(data) = "list" ->
            { Get(data.list[i], "name", "Unnamed Rule Set") : i \in 1..Len(data.list) }
      [] C17_Shape(data) = "map" -> { data.dict[i][1] : i \in 1..Len(data.dict) }
      [] C17_Shape(data) = "single" -> { member_value(data.dict, "name", Len(data.dict)).str }
      [] OTHER -> {}

\* C17: load_rule_sets_from_file detects and normalizes the three shapes of a
\* rule file: given a single rule-set object, a list of rule-set objects or a
\* map from names to rule-set objects, whatever the names are and whether or
\* not a rule set lists rules, the load completes and every rule set of the
\* file is registered in the engine under its name.
C17_EveryRuleSetRegistered ==
    ( /\ engine_call.op = "load_rule_sets_from_file"
      /\ FileFormats[engine_call.file.path] # "unsupported" )
    => /\ "returned" \in DOMAIN engine_result
       /\ \A name \in C17_Names(engine_call.file.data) :
            name \in DOMAIN rule_sets /\ rule_sets[name].name = name

\* a score between 0 and 1
C18_InUnitInterval(score) == RLeq(RInt(0), score) /\ RLeq(score, RInt(1))

\* C18: calculate_invoice_similarity returns a score in [0, 1] for every pair
\* of invoices, including zero, negative and missing totals and prices, missing
\* and unparsable dates and empty line-item lists, and each of the vendor,
\* total, date and line-items scores it combines is in [0, 1].
C18_ScoresInUnitInterval ==
    simAB # NoScore
    => /\ C18_InUnitInterval(simAB)
       /\ C18_InUnitInterval(simBA)
       /\ C18_InUnitInterval(vendor_score(simA, simB))
       /\ C18_InUnitInterval(total_score(simA, simB))
       /\ C18_InUnitInterval(total_score(simB, simA))
       /\ C18_InUnitInterval(date_score(simA, simB))
       /\ C18_InUnitInterval(line_items_score(simA, simB))
       /\ C18_InUnitInterval(line_items_score(simB, simA))

\* C18 witness: an invoice with a negative total and an unparsable date was
\* compared with one of the opposite total and no date; their totals are more
\* than 100% apart and the total score is 0.
C18_Witness ==
    /\ simAB # NoScore
    /\ Get(simA, "total", 0) = -91800 /\ Get(simA, "date", "") = "15/05/2023"
    /\ Get(simB, "total", 0) = 91800 /\ Get(simB, "date", "") = ""
    /\ total_score(simA, simB) = RInt(0)
    /\ C18_InUnitInterval(simAB)

\* check_duplicate was called with an invoice that is no exact duplicate
C19_NoExactDuplicate ==
    /\ call.op = "check_duplicate"
    /\ ~check_exact_duplicate(invoice_history, history_keys, invoice_hashes,
                              call.invoice.invoice_id, call.invoice).is_duplicate

\* the candidates of the similarity search in the order they are compared: the
\* bucket of the query's vendor, or every indexed id when that bucket is empty
C19_CandidateIds ==
    IF Get(vendor_invoices, Lower(call.invoice.vendor), <<>>) # <<>>
    THEN vendor_invoices[Lower(call.invoice.vendor)]
    ELSE history_keys

C19_Similarity(k) ==
    calculate_invoice_similarity(call.invoice, invoice_history[C19_CandidateIds[k]])

\* the positions of the candidates at or above the threshold
C19_AtOrAbove ==
    { k \in 1..Len(C19_CandidateIds) : RLeq(call.threshold, C19_Similarity(k)) }

\* the first candidate, in the order of comparison, whose similarity is the maximum
C19_Best ==
    CHOOSE k \in C19_AtOrAbove :
        \A j \in 1..Len(C19_CandidateIds) :
            /\ RLeq(C19_Similarity(j), C19_Similarity(k))
            /\ C19_Similarity(j) = C19_Similarity(k) => k <= j

\* C19: when check_duplicate finds no exact duplicate it reports a duplicate if
\* and only if some candidate has a similarity at or above the threshold; then
\* matched_invoice_id is a candidate whose similarity is the maximum over all
\* candidates, confidence is that maximum, and among candidates tied at the
\* maximum the choice is a function of the index state (the first one in the
\* order of comparison); otherwise is_duplicate is false with confidence 0.
C19_BestCandidate ==
    C19_NoExactDuplicate
    => IF C19_AtOrAbove # {}
       THEN /\ result.is_duplicate
            /\ result.duplicate_type = "similar_content"
            /\ result.matched_invoice_id = C19_CandidateIds[C19_Best]
            /\ result.confidence = C19_Similarity(C19_Best)
            /\ \A k \in 1..Len(C19_CandidateIds) :
                 RLeq(C19_Similarity(k), result.confidence)
       ELSE ~result.is_duplicate /\ result.confidence = RInt(0)

\* C19 witness: two candidates are tied at the maximum, which is at or above
\* the threshold, a third one has a lower similarity, and the first of the two
\* tied ones was reported.
C19_Witness ==
    /\ C19_NoExactDuplicate
    /\ \E j, k \in C19_AtOrAbove, l \in 1..Len(C19_CandidateIds) :
         /\ j < k
         /\ C19_CandidateIds[j] # C19_CandidateIds[k]
         /\ C19_Similarity(j) = C19_Similarity(k)
         /\ RLess(C19_Similarity(l), C19_Similarity(j))
         /\ \A m \in C19_AtOrAbove : RLeq(C19_Similarity(m), C19_Similarity(j))
         /\ result.matched_invoice_id = C19_CandidateIds[j]
    /\ result.is_duplicate

\* the ids of a list of similar invoices that are indexed under the query's vendor
C20_OfQueryVendor(similar_invoices) ==
    { similar_invoices[i].invoice_id : i \in 1..Len(similar_invoices) }
    \cap { id \in DOMAIN invoice_history :
             Lower(Get(invoice_history[id], "vendor", "UNKNOWN"))
               = Lower(Get(call.invoice, "vendor", "UNKNOWN")) }

\* what find_similar_invoices reports when it compares the query with the whole index
C20_WholeIndexScan ==
    sorted_and_limited(scan_candidates(invoice_history, history_keys, call.invoice,
                                       call.threshold),
                       call.max_results)

\* C20: vendor-bucket pruning is only an optimization: for every index state
\* reached by add_invoice calls, every query and every threshold, the indexed
\* invoices of the query's vendor that find_similar_invoices reports are those a
\* scan of the whole index reports, and invoices outside the bucket of the
\* query's vendor are compared only when that bucket is empty.
C20_PruningOnlyOptimization ==
    call.op = "find_similar_invoices"
    => /\ C20_OfQueryVendor(result.similar_invoices) = C20_OfQueryVendor(C20_WholeIndexScan)
       /\ Get(vendor_invoices, Lower(Get(call.invoice, "vendor", "UNKNOWN")), <<>>) # <<>>
          => \A i \in 1..Len(result.similar_invoices) :
                \E k \in 1..Len(vendor_invoices[Lower(call.invoice.vendor)]) :
                    vendor_invoices[Lower(call.invoice.vendor)][k]
                      = result.similar_invoices[i].invoice_id

(***************************************************************************)
(* The Invoice model and the index-based DuplicateDetector                 *)
(* (models/invoice.py, models/utils.py, models/duplicate_detection.py).    *)
(* An Invoice object is a record of the fields the detector reads; "obj"   *)
(* is the identity of the object (what "is" compares).  A Decimal is       *)
(* <<coefficient, exponent>>: Decimal("35.00") is <<3500, -2>>; two        *)
(* Decimals are equal when their values are, str() tells them apart.  The  *)
(* vendor is its name.  A hash is the tuple of the values that             *)
(* _generate_hash serializes (uuid5 of the JSON text).                     *)
(***************************************************************************)

Pow10(n) == IF n = 0 THEN 1 ELSE IF n = 1 THEN 10 ELSE IF n = 2 THEN 100 ELSE 1000

\* Decimal.__eq__: equality of the values
DecimalEq(x, y) == x[1] * Pow10(-y[2]) = y[1] * Pow10(-x[2])

\* sorted([str(item.amount) for item in self.line_items]): the sorted list of
\* strings, given as the bag of the strings (amount -> number of occurrences)
sorted_line_item_hashes(line_items) ==
    [a \in {line_items[i] : i \in 1..Len(line_items)} |->
        Cardinality({i \in 1..Len(line_items) : line_items[i] = a})]

\* Invoice._generate_hash
generate_hash(invoice) ==
    << invoice.invoice_id, invoice.vendor, invoice.issue_date, invoice.total,
       Len(invoice.line_items), sorted_line_item_hashes(invoice.line_items) >>

\* Invoice(...) with no invoice_hash given: __post_init__ generates the hash
Invoice(obj, invoice_id, vendor, issue_date, total, line_items) ==
    LET fields == [obj |-> obj, invoice_id |-> invoice_id, vendor |-> vendor,
                   issue_date |-> issue_date, total |-> total,
                   line_items |-> line_items]
    IN  [k \in DOMAIN fields \cup {"invoice_hash"} |->
            IF k = "invoice_hash" THEN generate_hash(fields) ELSE fields[k]]

\* "differences" of invoice_comparison: one entry per key field that differs
comparison_differences(invoice1, invoice2) ==
    (IF invoice1.invoice_id # invoice2.invoice_id
     THEN << <<"Invoice ID", invoice1.invoice_id, invoice2.invoice_id>> >> ELSE <<>>)
    \o (IF invoice1.vendor # invoice2.vendor
        THEN << <<"Vendor", invoice1.vendor, invoice2.vendor>> >> ELSE <<>>)
    \o (IF invoice1.issue_date # invoice2.issue_date
        THEN << <<"Date", invoice1.issue_date, invoice2.issue_date>> >> ELSE <<>>)
    \o (IF ~DecimalEq(invoice1.total, invoice2.total)
        THEN << <<"Total", invoice1.total, invoice2.total>> >> ELSE <<>>)

\* "if all key fields match, consider it a potential duplicate"
key_fields_match(invoice1, invoice2) ==
    /\ invoice1.invoice_id = invoice2.invoice_id
    /\ invoice1.vendor = invoice2.vendor
    /\ DecimalEq(invoice1.total, invoice2.total)

\* invoice_comparison(invoice1, invoice2)
invoice_comparison(invoice1, invoice2) ==
    LET same_hash == invoice1.invoice_hash = invoice2.invoice_hash
    IN  [is_duplicate |-> same_hash \/ key_fields_match(invoice1, invoice2),
         same_id |-> invoice1.invoice_id = invoice2.invoice_id,
         same_vendor |-> invoice1.vendor = invoice2.vendor,
         same_date |-> invoice1.issue_date = invoice2.issue_date,
         same_total |-> DecimalEq(invoice1.total, invoice2.total),
         same_line_item_count |-> Len(invoice1.line_items) = Len(invoice2.line_items),
         differences |-> IF same_hash THEN <<>>
                         ELSE comparison_differences(invoice1, invoice2)]

\* is_duplicate(invoice1, invoice2)
is_duplicate(invoice1, invoice2) ==
    invoice_comparison(invoice1, invoice2).is_duplicate

\* index[key].append(invoice) on a defaultdict(list)
index_append(index, key, invoice) ==
    DictSet(index, key, Append(Get(index, key, <<>>), invoice))

\* _add_to_indices for each of the first n invoices of a list, on an index
\* keyed by the given attribute
RECURSIVE add_to_index(_, _, _, _)
add_to_index(index, attribute, added, n) ==
    IF n = 0 THEN index
    ELSE index_append(add_to_index(index, attribute, added, n - 1),
                      added[n][attribute], added[n])

\* _find_duplicates_by_id / _find_duplicates_by_hash: the entries of an index
\* that hold more than one invoice
find_duplicates_by(index) ==
    [k \in {key \in DOMAIN index : Len(index[key]) > 1} |-> index[k]]

\* {invoice.invoice_id for invoice in group}
invoice_ids_in(group) == { group[i].invoice_id : i \in 1..Len(group) }

\* "already_covered": some hash group holds the ids of the id group
already_covered(id_group, hash_duplicates) ==
    \E hash_key \in DOMAIN hash_duplicates :
        invoice_ids_in(id_group) \subseteq invoice_ids_in(hash_duplicates[hash_key])

\* DuplicateDetector.find_duplicates: the dict of groups, its "hash:..." keys
\* under hash and its "id:..." keys under id
find_duplicates(ids, hashes) ==
    LET id_duplicates == find_duplicates_by(ids)
        hash_duplicates == find_duplicates_by(hashes)
    IN  [hash |-> hash_duplicates,
         id |-> [k \in {invoice_id \in DOMAIN id_duplicates :
                          ~already_covered(id_duplicates[invoice_id], hash_duplicates)}
                   |-> id_duplicates[k]]]

\* the first invoice of a list, from position n on, that is another object than
\* the given one and for which the verification holds
RECURSIVE first_other(_, _, _, _)
first_other(existing, invoice, verify, n) ==
    IF n > Len(existing) THEN Absent
    ELSE IF existing[n].obj # invoice.obj
            /\ (verify => is_duplicate(invoice, existing[n]))
    THEN existing[n]
    ELSE first_other(existing, invoice, verify, n + 1)

\* DuplicateDetector.find_duplicate_for_invoice(invoice)
find_duplicate_for_invoice(ids, hashes, invoice) ==
    LET by_id == first_other(Get(ids, invoice.invoice_id, <<>>), invoice, TRUE, 1)
    IN  IF by_id # Absent THEN by_id
        ELSE first_other(Get(hashes, invoice.invoice_hash, <<>>), invoice, FALSE, 1)

\* DuplicateDetector(invoices): "invoices or []", the indices built from the list
DuplicateDetector_init(given) ==
    [invoices |-> given,
     id_index |-> add_to_index(<<>>, "invoice_id", given, Len(given)),
     hash_index |-> add_to_index(<<>>, "invoice_hash", given, Len(given))]

(***************************************************************************)
(* The index-based detector as a state machine: constructed with a list of *)
(* invoices, then any sequence of add_invoice, add_invoices, clear,        *)
(* find_duplicates and find_duplicate_for_invoice calls, and is_duplicate  *)
(* on two invoices.  CollReturn is the caller taking the returned value.   *)
(***************************************************************************)

\* number of invoices a detector holds in a run
MaxInvoices == 3

\* copy.deepcopy(invoice): another object with the same attribute values
deepcopy(invoice, obj) == [invoice EXCEPT !.obj = obj]

\* the invoices of tests/test_duplicate_detection.py (with smaller amounts): an
\* invoice, its deep copy, a deep copy whose total was assigned afterwards (its hash is the one of the
\* original), and a different invoice; and two invoices constructed with the
\* id and vendor of the first, one with another total and one with an equal
\* total written with another number of digits
CollInvoice == Invoice(1, "INV-12345", "Acme Corporation", "2023-06-15", <<3380, -2>>,
                       << <<300000, -2>>, <<9995, -2>>, <<3000, -2>> >>)

CollInvoices ==
    { CollInvoice,
      deepcopy(CollInvoice, 2),
      [deepcopy(CollInvoice, 3) EXCEPT !.total = <<3500, -2>>],
      Invoice(4, "INV-12345", "Acme Corporation", "2023-06-15", <<3500, -2>>,
              << <<300000, -2>>, <<9995, -2>>, <<3000, -2>> >>),
      Invoice(5, "INV-67890", "XYZ Supplies", "2023-07-10", <<11875, -2>>,
              << <<6495, -2>>, <<4500, -2>> >>),
      Invoice(6, "INV-12345", "Acme Corporation", "2023-06-15", <<33800, -3>>,
              << <<3000, -2>>, <<300000, -2>>, <<9995, -2>> >>) }

\* the lists passed to the constructor and to add_invoices
CollLists ==
    { <<>> } \cup { <<a>> : a \in CollInvoices }
    \cup { <<a, b>> : a, b \in { i \in CollInvoices : i.obj \in {1, 2, 4, 5} } }

InitColl ==
    /\ DetIdle /\ ConcIdle /\ SimIdle /\ RuleIdle /\ SerIdle /\ EngIdle
    /\ \E given \in CollLists :
          /\ invoices = DuplicateDetector_init(given).invoices
          /\ id_index = DuplicateDetector_init(given).id_index
          /\ hash_index = DuplicateDetector_init(given).hash_index
    /\ coll_call = NoCall
    /\ coll_result = NoCall

\* add_invoices(added): the list is extended and each invoice is indexed
CollAddInvoices(added) ==
    /\ coll_call = NoCall
    /\ Len(invoices) + Len(added) <= MaxInvoices
    /\ invoices' = invoices \o added
    /\ id_index' = add_to_index(id_index, "invoice_id", added, Len(added))
    /\ hash_index' = add_to_index(hash_index, "invoice_hash", added, Len(added))
    /\ coll_call' = [op |-> "add_invoices", added |-> added]
    /\ coll_result' = Absent
    /\ UNCHANGED <<detVars, concVars, simVars, ruleVars, serVars, engVars>>

\* add_invoice(invoice)
CollAddInvoice(invoice) ==
    /\ coll_call = NoCall
    /\ Len(invoices) < MaxInvoices
    /\ invoices' = Append(invoices, invoice)
    /\ id_index' = add_to_index(id_index, "invoice_id", <<invoice>>, 1)
    /\ hash_index' = add_to_index(hash_index, "invoice_hash", <<invoice>>, 1)
    /\ coll_call' = [op |-> "add_invoice", invoice |-> invoice]
    /\ coll_result' = Absent
    /\ UNCHANGED <<detVars, concVars, simVars, ruleVars, serVars, engVars>>

\* clear()
CollClear ==
    /\ coll_call = NoCall
    /\ invoices' = <<>>
    /\ id_index' = <<>>
    /\ hash_index' = <<>>
    /\ coll_call' = [op |-> "clear"]
    /\ coll_result' = Absent
    /\ UNCHANGED <<detVars, concVars, simVars, ruleVars, serVars, engVars>>

\* find_duplicates()
CollFindDuplicates ==
    /\ coll_call = NoCall
    /\ coll_call' = [op |-> "find_duplicates"]
    /\ coll_result' = find_duplicates(id_index, hash_index)
    /\ UNCHANGED <<invoices, id_index, hash_index,
                   detVars, concVars, simVars, ruleVars, serVars, engVars>>

\* find_duplicate_for_invoice(invoice)
CollFindDuplicateForInvoice(invoice) ==
    /\ coll_call = NoCall
    /\ coll_call' = [op |-> "find_duplicate_for_invoice", invoice |-> invoice]
    /\ coll_result' = [found |-> find_duplicate_for_invoice(id_index, hash_index, invoice)]
    /\ UNCHANGED <<invoices, id_index, hash_index,
                   detVars, concVars, simVars, ruleVars, serVars, engVars>>

\* is_duplicate(invoice1, invoice2)
CollIsDuplicate(invoice1, invoice2) ==
    /\ coll_call = NoCall
    /\ coll_call' = [op |-> "is_duplicate", invoice1 |-> invoice1, invoice2 |-> invoice2]
    /\ coll_result' = [is_duplicate |-> is_duplicate(invoice1, invoice2),
                       reversed |-> is_duplicate(invoice2, invoice1)]
    /\ UNCHANGED <<invoices, id_index, hash_index,
                   detVars, concVars, simVars, ruleVars, serVars, engVars>>

CollReturn ==
    /\ coll_call # NoCall
    /\ coll_call' = NoCall
    /\ coll_result' = NoCall
    /\ UNCHANGED <<invoices, id_index, hash_index,
                   detVars, concVars, simVars, ruleVars, serVars, engVars>>

NextColl ==
    \/ \E invoice \in CollInvoices : CollAddInvoice(invoice)
    \/ \E added \in CollLists : CollAddInvoices(added)
    \/ CollClear
    \/ CollFindDuplicates
    \/ \E invoice \in CollInvoices : CollFindDuplicateForInvoice(invoice)
    \/ \E invoice1, invoice2 \in CollInvoices : CollIsDuplicate(invoice1, invoice2)
    \/ CollReturn

SpecColl == InitColl /\ [][NextColl]_vars

\* C21: the id index is one-to-many and is the persisted history: every step of
\* the detector keeps every invoice that was added before, so after add_invoice
\* calls for two different invoices with the same id both invoices are in the
\* index, with the hash of each entered in the hash index.
C21_AddNeverDiscards ==
    [][ \A id \in DOMAIN invoice_history :
           \E kept \in DOMAIN invoice_history' :
              /\ invoice_history'[kept] = invoice_history[id]
              /\ \E h \in DOMAIN invoice_hashes' :
                    invoice_hashes'[h] = generate_invoice_hash(invoice_history[id]) ]_vars

\* the set of lower-cased categories the check of the rule under study is to
\* allow: the policy's list when the context provides one, else the rule's own
C22_Allowed ==
    LET context == rule_input.context
        own == rule.attrs.allowed_categories
        list == IF "absent" \in DOMAIN context THEN own
                ELSE IF "policy_data" \notin DOMAIN context THEN own
                ELSE IF "str" \in DOMAIN context.policy_data THEN own
                ELSE IF "allowed_categories" \notin DOMAIN context.policy_data THEN own
                ELSE context.policy_data.allowed_categories.list
    IN  { Lower(list[i]) : i \in 1..Len(list) }

\* C22: AllowedCategoriesRule.check passes if and only if every line item's
\* lower-cased category is in the allowed set (the policy's allowed_categories
\* when the context provides one, the rule's own list otherwise), for line
\* items of any category value, an item with no category included; an invoice
\* with no line items passes.
C22_PassesIffAllAllowed ==
    (rule.class = "AllowedCategoriesRule" /\ rule_result # Absent)
    => LET line_items == Get(rule_input.invoice, "line_items", <<>>)
       IN  rule_result.passed
           <=> \A i \in 1..Len(line_items) :
                  /\ "category" \in DOMAIN line_items[i]
                  /\ Lower(line_items[i].category) \in C22_Allowed

\* the groups of a find_duplicates result
C23_Groups(duplicates) ==
    { duplicates.hash[k] : k \in DOMAIN duplicates.hash }
    \cup { duplicates.id[k] : k \in DOMAIN duplicates.id }

\* C23: every group that find_duplicates returns holds at least two invoices;
\* an invoice of the collection is in some returned group if and only if it
\* shares its invoice id or its hash with another invoice of the collection;
\* and the result is the one of a detector constructed with the collection,
\* however the invoices were added.
C23_GroupsAreTheSharers ==
    coll_call.op = "find_duplicates"
    => /\ \A group \in C23_Groups(coll_result) : Len(group) >= 2
       /\ \A i \in 1..Len(invoices) :
             (\E group \in C23_Groups(coll_result) :
                 \E k \in 1..Len(group) : group[k] = invoices[i])
             <=> \E j \in 1..Len(invoices) :
                    /\ j # i
                    /\ \/ invoices[j].invoice_id = invoices[i].invoice_id
                       \/ invoices[j].invoice_hash = invoices[i].invoice_hash
       /\ coll_result = find_duplicates(DuplicateDetector_init(invoices).id_index,
                                        DuplicateDetector_init(invoices).hash_index)

\* C24: is_duplicate(a, b) is True for any two invoices with the same invoice id
\* and the same vendor, also when their totals differ; it is False for two
\* invoices that differ in id, vendor, date and total; and the answer does not
\* depend on the order of the arguments.
C24_SameIdAndVendorIsDuplicate ==
    coll_call.op = "is_duplicate"
    => LET a == coll_call.invoice1
           b == coll_call.invoice2
       IN  /\ (a.invoice_id = b.invoice_id /\ a.vendor = b.vendor)
                 => coll_result.is_duplicate
           /\ ( /\ a.invoice_id # b.invoice_id
                /\ a.vendor # b.vendor
                /\ a.issue_date # b.issue_date
                /\ ~DecimalEq(a.total, b.total) )
                 => ~coll_result.is_duplicate
           /\ coll_result.is_duplicate = coll_result.reversed

\* C25: calculate_invoice_similarity is reflexive: similarity(a, a) = 1.0 for
\* every invoice a, including a zero or negative total, a missing date, no line
\* items, and line items with an empty description or a price or quantity of 0.
C25_Reflexive ==
    (simAB # NoScore /\ simA = simB) => simAB = RInt(1)

(***************************************************************************)
(* Insertion order: the detector of SpecDet, fed with invoices whose line  *)
(* items differ in number, so that the order of a comparison matters.      *)
(***************************************************************************)

\* an invoice with one line item, the same invoice under another id with a
\* second line item (no description, price 0), and one with twice the total
OrderInvoices ==
    { InvoiceData("INV-1", "Acme", 91800, "2023-05-15", <<ItemPaper>>),
      InvoiceData("INV-2", "Acme", 91800, "2023-05-15",
                  <<ItemPaper, [description |-> <<>>, price |-> 0, quantity |-> 1]>>),
      InvoiceData("INV-3", "Acme", 183600, "2023-05-15", <<ItemPaper>>) }

NextOrder ==
    \/ \E inv \in OrderInvoices : AddInvoice(inv)
    \/ \E threshold \in DetThresholds : GetDuplicateClusters(threshold)
    \/ DetReturn

SpecOrder == InitDet /\ [][NextOrder]_vars

\* the orders in which the indexed invoices can have been added
C26_Orders ==
    { p \in [1..Len(history_keys) -> DOMAIN invoice_history] :
        \A i, j \in 1..Len(history_keys) : i # j => p[i] # p[j] }

\* the set of the clusters of a result
C26_ClusterSet(clusters) == { clusters[k] : k \in 1..Len(clusters) }

\* C26: get_duplicate_clusters depends only on the set of indexed invoices: for
\* every threshold, every order of adding the same invoices gives the same set
\* of clusters.
C26_OrderIndependent ==
    call.op = "get_duplicate_clusters"
    => \A p \in C26_Orders :
          C26_ClusterSet(get_duplicate_clusters(invoice_history, p, call.threshold))
            = C26_ClusterSet(result)

\* the positions <<vendor, k>> of the vendor buckets that hold the id
C27_Occurrences(id) ==
    { vk \in UNION { {v} \X (1..Len(vendor_invoices[v])) : v \in DOMAIN vendor_invoices } :
        vendor_invoices[vk[1]][vk[2]] = id }

\* C27: the indexes are consistent after any sequence of add_invoice calls:
\* invoice_hashes has exactly the keys of invoice_history, each with the hash of
\* the invoice stored under it; every id of invoice_history occurs exactly once
\* over all vendor buckets, in the bucket of its current lower-cased vendor; and
\* find_similar_invoices never returns the same invoice id twice.
C27_IndexesConsistent ==
    /\ DOMAIN invoice_hashes = DOMAIN invoice_history
    /\ \A id \in DOMAIN invoice_history :
          /\ invoice_hashes[id] = generate_invoice_hash(invoice_history[id])
          /\ \E k \in 1..MaxAdds :
                C27_Occurrences(id)
                  = { <<Lower(Get(invoice_history[id], "vendor", "UNKNOWN")), k>> }
    /\ call.op = "find_similar_invoices"
       => \A i, j \in 1..Len(result.similar_invoices) :
             i # j => result.similar_invoices[i].invoice_id
                        # result.similar_invoices[j].invoice_id

\* the sum of the three severity counts of an audit result
C28_Counted(audit) ==
    audit.severity_counts.high + audit.severity_counts.medium + audit.severity_counts.low

\* C28: severity accounting is complete: in every result of RuleSet.audit_invoice
\* and in every aggregate of an audit of all rule sets, the high, medium and low
\* severity counts add up to failed_rules, for rules of any severity string.
C28_SeverityCountsComplete ==
    ( /\ engine_call.op = "audit_invoice"
      /\ "returned" \in DOMAIN engine_result
      /\ "failed_rules" \in DOMAIN engine_result.returned )
    => /\ C28_Counted(engine_result.returned) = engine_result.returned.failed_rules
       /\ "rule_set_results" \in DOMAIN engine_result.returned
          => \A name \in DOMAIN engine_result.returned.rule_set_results :
                C28_Counted(engine_result.returned.rule_set_results[name])
                  = engine_result.returned.rule_set_results[name].failed_rules

\* the verdict of check_duplicate for an invoice on an index state
C29_IsDuplicate(hist, keys, hashes, buckets, inv, threshold) ==
    check_duplicate(hist, keys, hashes, buckets, inv, threshold).is_duplicate

\* C29: duplicate verdicts are monotone in the index: for a fixed threshold, an
\* invoice that check_duplicate reports as a duplicate is still reported as a
\* duplicate after every further add_invoice call.
C29_VerdictsMonotone ==
    [][ \A inv \in DetInvoices, threshold \in DetThresholds :
           C29_IsDuplicate(invoice_history, history_keys, invoice_hashes,
                           vendor_invoices, inv, threshold)
           => C29_IsDuplicate(invoice_history', history_keys', invoice_hashes',
                              vendor_invoices', inv, threshold) ]_vars

\* the groups find_duplicates returns after add_invoice of the invoice checked
C30_GroupsAfterAdd ==
    C23_Groups(find_duplicates(
        add_to_index(id_index, "invoice_id", <<coll_call.invoice>>, 1),
        add_to_index(hash_index, "invoice_hash", <<coll_call.invoice>>, 1)))

\* C30: the per-invoice check and the batch check agree: for an invoice x that
\* is not in the detector, find_duplicate_for_invoice(x) returns None if and
\* only if, after add_invoice(x), x is in no group that find_duplicates
\* returns; and an invoice d it returns is another, indexed object for which
\* is_duplicate(x, d) is True.
C30_PerInvoiceAgreesWithBatch ==
    ( /\ coll_call.op = "find_duplicate_for_invoice"
      /\ \A i \in 1..Len(invoices) : invoices[i].obj # coll_call.invoice.obj )
    => /\ coll_result.found = Absent
          <=> \A group \in C30_GroupsAfterAdd :
                 \A k \in 1..Len(group) : group[k] # coll_call.invoice
       /\ coll_result.found # Absent
          => /\ coll_result.found.obj # coll_call.invoice.obj
             /\ \E i \in 1..Len(invoices) : invoices[i] = coll_result.found
             /\ is_duplicate(coll_call.invoice, coll_result.found)

====
